---- MODULE Spec2Model ----
(***************************************************************************)
(* ChatOnPage background script: the payload selection of buildProviderUrl *)
(* and createPageContext, as a state machine over one call; the settings   *)
(* store with normalizeSettings and ensureDefaultSettings; the listeners   *)
(* and handleTrigger; setupContextMenus, chained through                   *)
(* setupContextMenusChain and, as in src/entrypoints/background.ts,        *)
(* unchained; the options page; the follow-up prompt.                      *)
(*                                                                         *)
(* A JavaScript string is modelled as the sequence of its UTF-16 code      *)
(* units, each code unit a one-character TLA+ string; HighSurrogate and    *)
(* LowSurrogate stand for the two halves of one astral character           *)
(* (U+1F600).  An optional value (undefined / null) is the record Null,    *)
(* a present one is Some(v).                                               *)
(*                                                                         *)
(* The templates are the English ones of src/unnamed/part_004; those of    *)
(* src/entrypoints/background.ts differ in wording only.                   *)
(***************************************************************************)
EXTENDS Integers, Sequences, FiniteSets, TLC

VARIABLES
  \* one call of buildProviderUrl
  pc,        \* position in the call: "start", "switch", "encode", "done"
  pageInfo,  \* argument: PageExtractionResult | null
  tab,       \* argument: BrowserTab
  provider,  \* argument: Provider
  action,    \* argument: Action
  extras,    \* argument: BuildExtras
  context,   \* local: the PageContext
  payload,   \* local: string | null
  result,    \* what the call produced: null, a URL, or a thrown URIError
  \* the settings store
  store,     \* browser.storage.sync: the values under 'provider' and 'openMode'
  ensure,    \* the runs of ensureDefaultSettings: position and locals of each
  writes,    \* the calls of browser.storage.sync.set so far
  \* one run of handleTrigger
  hpc,       \* position in handleTrigger
  trig,      \* what called it: the listener and the tab it passed
  activeTab, \* local: the tab the run works on
  settings,  \* local: what getSettings returned
  opened,    \* the calls of windows.create / tabs.create so far
  notified,  \* the calls of notifications.create so far
  rejection, \* the error the promise of handleTrigger rejected with, if any
  \* the context menus
  chain,     \* setupContextMenusChain: the promise it holds (0: the initial one)
  promises,  \* the promises then(run, run) made, each with its run of the body
  menus,     \* browser.contextMenus: the items that exist, the root item's title
  \* the options page
  page,      \* the component's state: settings, status, the reset timer
  saves,     \* the calls of updateSetting: key, value, how far the save got
  \* the follow-up prompt in one tab
  prompts,   \* the calls of showFollowupPrompt: pending or resolved, and with what
  overlay    \* the call whose overlay element is in the document (0: none)

buildVars == <<pc, pageInfo, tab, provider, action, extras, context, payload, result>>
settingsVars == <<store, ensure, writes>>
triggerVars == <<hpc, trig, activeTab, settings, opened, notified, rejection>>

menuVars == <<chain, promises, menus>>
optionsVars == <<page, saves>>
promptVars == <<prompts, overlay>>
pageVars == <<optionsVars, promptVars>>

\* what a call of buildProviderUrl on its own leaves alone
hostVars == <<settingsVars, triggerVars, menuVars, pageVars>>

\* what the runs of ensureDefaultSettings leave alone
nonSettingsVars == <<buildVars, triggerVars, menuVars, pageVars>>

\* what a run of handleTrigger leaves alone, besides its own variables and
\* those of the call of buildProviderUrl
nonTriggerVars == <<settingsVars, menuVars, pageVars>>

vars == <<buildVars, settingsVars, triggerVars, menuVars, pageVars>>

----------------------------------------------------------------------------
(* Program constants *)

MAX_Q == 1500
LONG_PAGE_THRESHOLD == 4000

(* Bound of the model: how many code units beyond MAX_Q a long selection   *)
(* may have.                                                               *)
MaxOver == 1

----------------------------------------------------------------------------
(* Strings *)

Null == [some |-> FALSE, val |-> <<>>]
Some(v) == [some |-> TRUE, val |-> v]

\* JavaScript truthiness of a string | null | undefined
Truthy(opt) == opt.some /\ Len(opt.val) > 0

HighSurrogate == "<D83D>"
LowSurrogate == "<DE00>"

\* The white space String.prototype.trim removes (the part of it the model uses)
WhiteSpace == {" ", "\t", "\n"}

Min(a, b) == IF a <= b THEN a ELSE b

\* s.slice(0, n), n >= 0
SliceMutOneMore(s, n) == SubSeq(s, 1, Min(n + 1, Len(s)))
Slice(s, n) == SubSeq(s, 1, Min(n, Len(s)))

\* s.trim()
Trim(s) ==
  IF \A i \in 1..Len(s) : s[i] \in WhiteSpace
  THEN <<>>
  ELSE LET first == CHOOSE i \in 1..Len(s) :
                      s[i] \notin WhiteSpace /\ \A j \in 1..(i - 1) : s[j] \in WhiteSpace
           last == CHOOSE i \in 1..Len(s) :
                      s[i] \notin WhiteSpace /\ \A j \in (i + 1)..Len(s) : s[j] \in WhiteSpace
       IN SubSeq(s, first, last)

----------------------------------------------------------------------------
(* encodeURIComponent *)

Unreserved ==
  {"A", "B", "C", "D", "E", "F", "G", "H", "I", "J", "K", "L", "M", "N", "O", "P", "Q", "R", "S", "T", "U", "V", "W", "X", "Y", "Z", "a", "b", "c", "d", "e", "f", "g", "h", "i", "j", "k", "l", "m", "n", "o", "p", "q", "r", "s", "t", "u", "v", "w", "x", "y", "z", "0", "1", "2", "3", "4", "5", "6", "7", "8", "9", "-", "_", ".", "!", "~", "*", "'", "(", ")"}

\* form encoding: a space becomes a plus sign
EscapeMutPlus(c) ==
  IF c \in Unreserved THEN <<c>>
  ELSE CASE c = " "  -> <<"+">>
         [] c = "\t" -> <<"%", "0", "9">>
         [] c = "\n" -> <<"%", "0", "A">>
         [] c = "\"" -> <<"%", "2", "2">>
         [] c = "%"  -> <<"%", "2", "5">>
         [] c = "/"  -> <<"%", "2", "F">>
         [] c = ":"  -> <<"%", "3", "A">>
         [] c = ";"  -> <<"%", "3", "B">>
         [] c = "="  -> <<"%", "3", "D">>
         [] c = "?"  -> <<"%", "3", "F">>

\* The percent-escape of one code unit that is not a surrogate
Escape(c) ==
  IF c \in Unreserved THEN <<c>>
  ELSE CASE c = " "  -> <<"%", "2", "0">>
         [] c = "\t" -> <<"%", "0", "9">>
         [] c = "\n" -> <<"%", "0", "A">>
         [] c = "\"" -> <<"%", "2", "2">>
         [] c = "%"  -> <<"%", "2", "5">>
         [] c = "/"  -> <<"%", "2", "F">>
         [] c = ":"  -> <<"%", "3", "A">>
         [] c = ";"  -> <<"%", "3", "B">>
         [] c = "="  -> <<"%", "3", "D">>
         [] c = "?"  -> <<"%", "3", "F">>

\* U+1F600 is F0 9F 98 80 in UTF-8
EscapePair == <<"%", "F", "0", "%", "9", "F", "%", "9", "8", "%", "8", "0">>

\* Every surrogate of s is half of a pair
WellFormed(s) ==
  \A i \in 1..Len(s) :
    /\ s[i] = HighSurrogate => (i < Len(s) /\ s[i + 1] = LowSurrogate)
    /\ s[i] = LowSurrogate => (i > 1 /\ s[i - 1] = HighSurrogate)

RECURSIVE Flatten(_, _, _)
Flatten(chunks, lo, hi) ==
  IF lo > hi THEN <<>>
  ELSE IF lo = hi THEN chunks[lo]
  ELSE LET mid == (lo + hi) \div 2
       IN Flatten(chunks, lo, mid) \o Flatten(chunks, mid + 1, hi)

\* [threw |-> TRUE] is the URIError a lone surrogate raises
encodeURIComponent(s) ==
  IF ~WellFormed(s)
  THEN [threw |-> TRUE, val |-> <<>>]
  ELSE LET chunks == [i \in 1..Len(s) |->
                        IF s[i] = HighSurrogate THEN EscapePair
                        ELSE IF s[i] = LowSurrogate THEN <<>>
                        ELSE Escape(s[i])]
       IN [threw |-> FALSE, val |-> Flatten(chunks, 1, Len(s))]

----------------------------------------------------------------------------
(* decodeURIComponent, the inverse a provider applies to the query value *)

HexDigits ==
  {"0", "1", "2", "3", "4", "5", "6", "7", "8", "9", "A", "B", "C", "D", "E", "F"}

\* The code unit of an escaped byte below 0x80
Unescape(h1, h2) ==
  CASE <<h1, h2>> = <<"2", "0">> -> " "
    [] <<h1, h2>> = <<"0", "9">> -> "\t"
    [] <<h1, h2>> = <<"0", "A">> -> "\n"
    [] <<h1, h2>> = <<"2", "2">> -> "\""
    [] <<h1, h2>> = <<"2", "5">> -> "%"
    [] <<h1, h2>> = <<"2", "F">> -> "/"
    [] <<h1, h2>> = <<"3", "A">> -> ":"
    [] <<h1, h2>> = <<"3", "B">> -> ";"
    [] <<h1, h2>> = <<"3", "D">> -> "="
    [] <<h1, h2>> = <<"3", "F">> -> "?"

\* u holds the four escaped bytes of U+1F600 from index i on
PairStartsAt(u, i) ==
  i >= 1 /\ i + Len(EscapePair) - 1 <= Len(u)
    /\ SubSeq(u, i, i + Len(EscapePair) - 1) = EscapePair

\* The escape at index i is one of the three continuation bytes of a pair
ContinuesPair(u, i) == \E k \in 1..3 : PairStartsAt(u, i - 3 * k)

\* Every percent sign starts an escape that decodes
WellEscaped(u) ==
  \A i \in 1..Len(u) :
    u[i] = "%" =>
      /\ i + 2 <= Len(u)
      /\ u[i + 1] \in HexDigits /\ u[i + 2] \in HexDigits
      /\ \/ PairStartsAt(u, i)
         \/ ContinuesPair(u, i)
         \/ u[i + 1] \in {"0", "2", "3"}

\* [threw |-> TRUE] is the URIError a malformed escape raises
decodeURIComponent(u) ==
  IF ~WellEscaped(u)
  THEN [threw |-> TRUE, val |-> <<>>]
  ELSE LET chunks == [i \in 1..Len(u) |->
                        IF u[i] = "%"
                        THEN IF PairStartsAt(u, i) THEN <<HighSurrogate, LowSurrogate>>
                             ELSE IF ContinuesPair(u, i) THEN <<>>
                             ELSE <<Unescape(u[i + 1], u[i + 2])>>
                        ELSE IF (i > 1 /\ u[i - 1] = "%") \/ (i > 2 /\ u[i - 2] = "%")
                             THEN <<>>
                        ELSE <<u[i]>>]
       IN [threw |-> FALSE, val |-> Flatten(chunks, 1, Len(u))]

----------------------------------------------------------------------------
(* Providers *)

Providers == {"perplexity", "chatgpt", "claude"}
Actions == {"summary", "translate", "rewrite", "followup"}

\* "https://www.perplexity.ai/search?q="
UrlPerplexity ==
  <<"h", "t", "t", "p", "s", ":", "/", "/", "w", "w", "w", ".", "p", "e", "r", "p", "l", "e", "x", "i", "t", "y", ".", "a", "i", "/", "s", "e", "a", "r", "c", "h", "?", "q", "=">>
\* "https://chatgpt.com/?q="
UrlChatgpt ==
  <<"h", "t", "t", "p", "s", ":", "/", "/", "c", "h", "a", "t", "g", "p", "t", ".", "c", "o", "m", "/", "?", "q", "=">>
\* "https://claude.ai/new?q="
UrlClaude ==
  <<"h", "t", "t", "p", "s", ":", "/", "/", "c", "l", "a", "u", "d", "e", ".", "a", "i", "/", "n", "e", "w", "?", "q", "=">>
PROVIDER_URLS ==
  [perplexity |-> UrlPerplexity, chatgpt |-> UrlChatgpt, claude |-> UrlClaude]

\* the default provider's URL whatever the provider
BaseUrlMutDefaultOnly(p) == PROVIDER_URLS["perplexity"]

\* PROVIDER_URLS[provider] ?? PROVIDER_URLS.perplexity
BaseUrl(p) ==
  IF p \in DOMAIN PROVIDER_URLS THEN PROVIDER_URLS[p] ELSE PROVIDER_URLS["perplexity"]

----------------------------------------------------------------------------
(* The payload templates of buildProviderUrl *)

\* `Summarize: ${title}`
SummarizeTitle(title) ==
  <<"S", "u", "m", "m", "a", "r", "i", "z", "e", ":", " ">>
    \o title
\* the same with the URL before the title
SummarizePageTitleUrlMutSwapped(title, pageUrl) ==
  <<"S", "u", "m", "m", "a", "r", "i", "z", "e", " ", "t", "h", "i", "s", " ", "p", "a", "g", "e", ":", " ">>
    \o pageUrl
    \o <<" ">>
    \o title
\* `Summarize this page: ${title} ${pageUrl}`
SummarizePageTitleUrl(title, pageUrl) ==
  <<"S", "u", "m", "m", "a", "r", "i", "z", "e", " ", "t", "h", "i", "s", " ", "p", "a", "g", "e", ":", " ">>
    \o title
    \o <<" ">>
    \o pageUrl
\* `Summarize this page: ${pageUrl}`
SummarizePageUrl(pageUrl) ==
  <<"S", "u", "m", "m", "a", "r", "i", "z", "e", " ", "t", "h", "i", "s", " ", "p", "a", "g", "e", ":", " ">>
    \o pageUrl
\* `Translate the following into ${languageLabel}: ${selection}`
TranslateSelection(languageLabel, selection) ==
  <<"T", "r", "a", "n", "s", "l", "a", "t", "e", " ", "t", "h", "e", " ", "f", "o", "l", "l", "o", "w", "i", "n", "g", " ", "i", "n", "t", "o", " ">>
    \o languageLabel
    \o <<":", " ">>
    \o selection
\* the same sentence with the URL put on a line of its own
TranslatePageMutNewline(languageLabel, pageUrl) ==
  <<"T", "r", "a", "n", "s", "l", "a", "t", "e", " ", "t", "h", "i", "s", " ", "p", "a", "g", "e", " ", "i", "n", "t", "o", " ">>
    \o languageLabel
    \o <<":", "\n">>
    \o pageUrl
\* `Translate this page into ${languageLabel}: ${pageUrl}`
TranslatePage(languageLabel, pageUrl) ==
  <<"T", "r", "a", "n", "s", "l", "a", "t", "e", " ", "t", "h", "i", "s", " ", "p", "a", "g", "e", " ", "i", "n", "t", "o", " ">>
    \o languageLabel
    \o <<":", " ">>
    \o pageUrl
\* `Translate the following into ${languageLabel} (long content; partial excerpt): ${truncatedSelection}`
TranslateExcerpt(languageLabel, truncatedSelection) ==
  <<"T", "r", "a", "n", "s", "l", "a", "t", "e", " ", "t", "h", "e", " ", "f", "o", "l", "l", "o", "w", "i", "n", "g", " ", "i", "n", "t", "o", " ">>
    \o languageLabel
    \o <<" ", "(", "l", "o", "n", "g", " ", "c", "o", "n", "t", "e", "n", "t", ";", " ", "p", "a", "r", "t", "i", "a", "l", " ", "e", "x", "c", "e", "r", "p", "t", ")", ":", " ">>
    \o truncatedSelection
\* `Translate content related to "${title}" into ${languageLabel}.`
TranslateTitle(title, languageLabel) ==
  <<"T", "r", "a", "n", "s", "l", "a", "t", "e", " ", "c", "o", "n", "t", "e", "n", "t", " ", "r", "e", "l", "a", "t", "e", "d", " ", "t", "o", " ", "\"">>
    \o title
    \o <<"\"", " ", "i", "n", "t", "o", " ">>
    \o languageLabel
    \o <<".">>
\* `Translate into ${languageLabel}.`
TranslateLanguageOnly(languageLabel) ==
  <<"T", "r", "a", "n", "s", "l", "a", "t", "e", " ", "i", "n", "t", "o", " ">>
    \o languageLabel
    \o <<".">>
\* `Rewrite and polish the following: ${selection}`
RewriteSelection(selection) ==
  <<"R", "e", "w", "r", "i", "t", "e", " ", "a", "n", "d", " ", "p", "o", "l", "i", "s", "h", " ", "t", "h", "e", " ", "f", "o", "l", "l", "o", "w", "i", "n", "g", ":", " ">>
    \o selection
\* `Read the page "${title}" and rewrite/polish its key content: ${pageUrl}`
RewritePageTitleUrl(title, pageUrl) ==
  <<"R", "e", "a", "d", " ", "t", "h", "e", " ", "p", "a", "g", "e", " ", "\"">>
    \o title
    \o <<"\"", " ", "a", "n", "d", " ", "r", "e", "w", "r", "i", "t", "e", "/", "p", "o", "l", "i", "s", "h", " ", "i", "t", "s", " ", "k", "e", "y", " ", "c", "o", "n", "t", "e", "n", "t", ":", " ">>
    \o pageUrl
\* `Rewrite and polish the key content of this page: ${pageUrl}`
RewritePageUrl(pageUrl) ==
  <<"R", "e", "w", "r", "i", "t", "e", " ", "a", "n", "d", " ", "p", "o", "l", "i", "s", "h", " ", "t", "h", "e", " ", "k", "e", "y", " ", "c", "o", "n", "t", "e", "n", "t", " ", "o", "f", " ", "t", "h", "i", "s", " ", "p", "a", "g", "e", ":", " ">>
    \o pageUrl
\* `Rewrite and polish the following (long content; partial excerpt): ${truncatedSelection}`
RewriteExcerpt(truncatedSelection) ==
  <<"R", "e", "w", "r", "i", "t", "e", " ", "a", "n", "d", " ", "p", "o", "l", "i", "s", "h", " ", "t", "h", "e", " ", "f", "o", "l", "l", "o", "w", "i", "n", "g", " ", "(", "l", "o", "n", "g", " ", "c", "o", "n", "t", "e", "n", "t", ";", " ", "p", "a", "r", "t", "i", "a", "l", " ", "e", "x", "c", "e", "r", "p", "t", ")", ":", " ">>
    \o truncatedSelection
\* `Rewrite and polish content related to "${title}".`
RewriteTitle(title) ==
  <<"R", "e", "w", "r", "i", "t", "e", " ", "a", "n", "d", " ", "p", "o", "l", "i", "s", "h", " ", "c", "o", "n", "t", "e", "n", "t", " ", "r", "e", "l", "a", "t", "e", "d", " ", "t", "o", " ", "\"">>
    \o title
    \o <<"\"", ".">>
\* `Here is relevant content: ${selection}\nPlease answer my follow-up question based on it: ${question}`
FollowupSelection(selection, question) ==
  <<"H", "e", "r", "e", " ", "i", "s", " ", "r", "e", "l", "e", "v", "a", "n", "t", " ", "c", "o", "n", "t", "e", "n", "t", ":", " ">>
    \o selection
    \o <<"\n", "P", "l", "e", "a", "s", "e", " ", "a", "n", "s", "w", "e", "r", " ", "m", "y", " ", "f", "o", "l", "l", "o", "w", "-", "u", "p", " ", "q", "u", "e", "s", "t", "i", "o", "n", " ", "b", "a", "s", "e", "d", " ", "o", "n", " ", "i", "t", ":", " ">>
    \o question
\* `Page "${title}": ${pageUrl}\nPlease answer my follow-up question based on this page: ${question}`
FollowupPageTitleUrl(title, pageUrl, question) ==
  <<"P", "a", "g", "e", " ", "\"">>
    \o title
    \o <<"\"", ":", " ">>
    \o pageUrl
    \o <<"\n", "P", "l", "e", "a", "s", "e", " ", "a", "n", "s", "w", "e", "r", " ", "m", "y", " ", "f", "o", "l", "l", "o", "w", "-", "u", "p", " ", "q", "u", "e", "s", "t", "i", "o", "n", " ", "b", "a", "s", "e", "d", " ", "o", "n", " ", "t", "h", "i", "s", " ", "p", "a", "g", "e", ":", " ">>
    \o question
\* `Page: ${pageUrl}\nPlease answer my follow-up question based on this page: ${question}`
FollowupPageUrl(pageUrl, question) ==
  <<"P", "a", "g", "e", ":", " ">>
    \o pageUrl
    \o <<"\n", "P", "l", "e", "a", "s", "e", " ", "a", "n", "s", "w", "e", "r", " ", "m", "y", " ", "f", "o", "l", "l", "o", "w", "-", "u", "p", " ", "q", "u", "e", "s", "t", "i", "o", "n", " ", "b", "a", "s", "e", "d", " ", "o", "n", " ", "t", "h", "i", "s", " ", "p", "a", "g", "e", ":", " ">>
    \o question
\* `Here is relevant content (long content; partial excerpt): ${truncatedSelection}\nPlease answer my follow-up question based on it: ${question}`
FollowupExcerpt(truncatedSelection, question) ==
  <<"H", "e", "r", "e", " ", "i", "s", " ", "r", "e", "l", "e", "v", "a", "n", "t", " ", "c", "o", "n", "t", "e", "n", "t", " ", "(", "l", "o", "n", "g", " ", "c", "o", "n", "t", "e", "n", "t", ";", " ", "p", "a", "r", "t", "i", "a", "l", " ", "e", "x", "c", "e", "r", "p", "t", ")", ":", " ">>
    \o truncatedSelection
    \o <<"\n", "P", "l", "e", "a", "s", "e", " ", "a", "n", "s", "w", "e", "r", " ", "m", "y", " ", "f", "o", "l", "l", "o", "w", "-", "u", "p", " ", "q", "u", "e", "s", "t", "i", "o", "n", " ", "b", "a", "s", "e", "d", " ", "o", "n", " ", "i", "t", ":", " ">>
    \o question
\* `Please answer my follow-up question using information related to "${title}": ${question}`
FollowupTitle(title, question) ==
  <<"P", "l", "e", "a", "s", "e", " ", "a", "n", "s", "w", "e", "r", " ", "m", "y", " ", "f", "o", "l", "l", "o", "w", "-", "u", "p", " ", "q", "u", "e", "s", "t", "i", "o", "n", " ", "u", "s", "i", "n", "g", " ", "i", "n", "f", "o", "r", "m", "a", "t", "i", "o", "n", " ", "r", "e", "l", "a", "t", "e", "d", " ", "t", "o", " ", "\"">>
    \o title
    \o <<"\"", ":", " ">>
    \o question

----------------------------------------------------------------------------
(* createPageContext *)

\* any snapshot counts as a successful extraction
extractionSucceededMutNonNull(pi) == ~pi.isNull
\* pageInfo?.success ?? false
extractionSucceeded(pi) == IF pi.isNull THEN FALSE ELSE pi.success

\* selectionIsShort ? selection : selection.slice(0, MAX_Q).trim()
truncatedSelectionMutUncut(selection, selectionIsShort) == selection
truncatedSelection(selection, selectionIsShort) ==
  IF selectionIsShort THEN selection ELSE Trim(Slice(selection, MAX_Q))

\* the snapshot's URL taken whether or not the extraction succeeded
pageUrlCandidateMutAnySnapshot(pi, t) ==
  IF ~pi.isNull /\ Len(pi.url) > 0 THEN pi.url
  ELSE IF Truthy(t.url) THEN t.url.val
  ELSE <<>>

\* (succeeded ? pageInfo.url : undefined) || tab.url || ''
pageUrlCandidate(pi, t) ==
  IF extractionSucceeded(pi) /\ Len(pi.url) > 0 THEN pi.url
  ELSE IF Truthy(t.url) THEN t.url.val
  ELSE <<>>

\* candidate && candidate.trim().length > 0 ? candidate : null
pageUrl(candidate) ==
  IF Len(candidate) > 0 /\ Len(Trim(candidate)) > 0 THEN Some(candidate) ELSE Null

\* (succeeded ? pageInfo.title : undefined) ?? tab.title ?? ''
titleCandidate(pi, t) ==
  IF extractionSucceeded(pi) THEN pi.title
  ELSE IF t.title.some THEN t.title.val
  ELSE <<>>

\* (!hasSelection && pageTextLength > LONG_PAGE_THRESHOLD) || selectionIsLong
pageIsLongMutAtThreshold(hasSelection, pageTextLength, selectionIsLong) ==
  (~hasSelection /\ pageTextLength >= LONG_PAGE_THRESHOLD) \/ selectionIsLong
pageIsLong(hasSelection, pageTextLength, selectionIsLong) ==
  (~hasSelection /\ pageTextLength > LONG_PAGE_THRESHOLD) \/ selectionIsLong

createPageContext(pi, t) ==
  LET rawSelection == IF extractionSucceeded(pi) THEN pi.selection ELSE <<>>
      selection == Trim(rawSelection)
      hasSelection == Len(selection) > 0
      pageTextLength == IF extractionSucceeded(pi) THEN pi.pageTextLength ELSE 0
      selectionIsShort == hasSelection /\ Len(selection) <= MAX_Q
      selectionIsLong == hasSelection /\ Len(selection) > MAX_Q
  IN [selection |-> selection,
      truncatedSelection |-> truncatedSelection(selection, selectionIsShort),
      hasSelection |-> hasSelection,
      selectionIsShort |-> selectionIsShort,
      selectionIsLong |-> selectionIsLong,
      pageIsLong |-> pageIsLong(hasSelection, pageTextLength, selectionIsLong),
      pageUrl |-> pageUrl(pageUrlCandidate(pi, t)),
      title |-> Trim(titleCandidate(pi, t))]

----------------------------------------------------------------------------
(* buildProviderUrl: the switch over the action.  Each case yields the     *)
(* payload (Null when no branch assigns it).                               *)

\* summary with the URL branches tried before the short selection
summaryPayloadMutUrlFirst(c) ==
  IF c.pageIsLong THEN
    LET first == IF c.pageUrl.some THEN c.pageUrl ELSE Some(c.truncatedSelection)
    IN IF ~Truthy(first) /\ Len(c.title) > 0
       THEN Some(SummarizeTitle(c.title))
       ELSE first
  ELSE IF Truthy(c.pageUrl) THEN
    IF Len(c.title) > 0
    THEN Some(SummarizePageTitleUrl(c.title, c.pageUrl.val))
    ELSE Some(SummarizePageUrl(c.pageUrl.val))
  ELSE IF c.selectionIsShort THEN Some(c.selection)
  ELSE IF Len(c.truncatedSelection) > 0 THEN Some(c.truncatedSelection)
  ELSE IF Len(c.title) > 0 THEN Some(SummarizeTitle(c.title))
  ELSE Null

summaryPayload(c) ==
  IF c.selectionIsShort THEN Some(c.selection)
  ELSE IF c.pageIsLong THEN
    LET first == IF c.pageUrl.some THEN c.pageUrl ELSE Some(c.truncatedSelection)
    IN IF ~Truthy(first) /\ Len(c.title) > 0
       THEN Some(SummarizeTitle(c.title))
       ELSE first
  ELSE IF Truthy(c.pageUrl) THEN
    IF Len(c.title) > 0
    THEN Some(SummarizePageTitleUrl(c.title, c.pageUrl.val))
    ELSE Some(SummarizePageUrl(c.pageUrl.val))
  ELSE IF Len(c.truncatedSelection) > 0 THEN Some(c.truncatedSelection)
  ELSE IF Len(c.title) > 0 THEN Some(SummarizeTitle(c.title))
  ELSE Null

\* language.displayName || language.code
languageLabel(language) ==
  IF Len(language.displayName) > 0 THEN language.displayName ELSE language.code

\* translate with the excerpt of a long selection tried before the URL
translatePayloadMutExcerptFirst(c, e) ==
  LET label == languageLabel(e.language)
  IN IF c.selectionIsShort THEN Some(TranslateSelection(label, c.selection))
     ELSE IF c.hasSelection THEN Some(TranslateExcerpt(label, c.truncatedSelection))
     ELSE IF Truthy(c.pageUrl) THEN Some(TranslatePage(label, c.pageUrl.val))
     ELSE IF Len(c.title) > 0 THEN Some(TranslateTitle(c.title, label))
     ELSE Some(TranslateLanguageOnly(label))

translatePayload(c, e) ==
  LET label == languageLabel(e.language)
  IN IF c.selectionIsShort THEN Some(TranslateSelection(label, c.selection))
     ELSE IF Truthy(c.pageUrl) THEN Some(TranslatePage(label, c.pageUrl.val))
     ELSE IF c.hasSelection THEN Some(TranslateExcerpt(label, c.truncatedSelection))
     ELSE IF Len(c.title) > 0 THEN Some(TranslateTitle(c.title, label))
     ELSE Some(TranslateLanguageOnly(label))

\* rewrite with the title phrase not guarded by the title
rewritePayloadMutUnguardedTitle(c) ==
  IF c.selectionIsShort THEN Some(RewriteSelection(c.selection))
  ELSE IF Truthy(c.pageUrl) THEN
    IF Len(c.title) > 0
    THEN Some(RewritePageTitleUrl(c.title, c.pageUrl.val))
    ELSE Some(RewritePageUrl(c.pageUrl.val))
  ELSE IF c.hasSelection THEN Some(RewriteExcerpt(c.truncatedSelection))
  ELSE Some(RewriteTitle(c.title))

rewritePayload(c) ==
  IF c.selectionIsShort THEN Some(RewriteSelection(c.selection))
  ELSE IF Truthy(c.pageUrl) THEN
    IF Len(c.title) > 0
    THEN Some(RewritePageTitleUrl(c.title, c.pageUrl.val))
    ELSE Some(RewritePageUrl(c.pageUrl.val))
  ELSE IF c.hasSelection THEN Some(RewriteExcerpt(c.truncatedSelection))
  ELSE IF Len(c.title) > 0 THEN Some(RewriteTitle(c.title))
  ELSE Null

\* the question not trimmed
followupQuestionMutNoTrim(e) == e.followupQuestion

\* extras.followupQuestion?.trim()
followupQuestion(e) ==
  IF e.followupQuestion.some THEN Some(Trim(e.followupQuestion.val)) ELSE Null

\* followup with the URL tried before the short selection
followupPayloadMutUrlFirst(c, e) ==
  LET question == followupQuestion(e).val
  IN IF Truthy(c.pageUrl) THEN
       IF Len(c.title) > 0
       THEN Some(FollowupPageTitleUrl(c.title, c.pageUrl.val, question))
       ELSE Some(FollowupPageUrl(c.pageUrl.val, question))
     ELSE IF c.selectionIsShort THEN Some(FollowupSelection(c.selection, question))
     ELSE IF c.hasSelection THEN Some(FollowupExcerpt(c.truncatedSelection, question))
     ELSE IF Len(c.title) > 0 THEN Some(FollowupTitle(c.title, question))
     ELSE Some(question)

followupPayload(c, e) ==
  LET question == followupQuestion(e).val
  IN IF c.selectionIsShort THEN Some(FollowupSelection(c.selection, question))
     ELSE IF Truthy(c.pageUrl) THEN
       IF Len(c.title) > 0
       THEN Some(FollowupPageTitleUrl(c.title, c.pageUrl.val, question))
       ELSE Some(FollowupPageUrl(c.pageUrl.val, question))
     ELSE IF c.hasSelection THEN Some(FollowupExcerpt(c.truncatedSelection, question))
     ELSE IF Len(c.title) > 0 THEN Some(FollowupTitle(c.title, question))
     ELSE Some(question)

\* The two `return null` inside the switch: translate without a language,
\* followup without a question
returnsEarly(a, e) ==
  \/ a = "translate" /\ ~e.language.some
  \/ a = "followup" /\ ~Truthy(followupQuestion(e))

\* switch (action); the default case is for a value outside Action
switchPayload(c, a, e) ==
  CASE a = "summary" -> summaryPayload(c)
    [] a = "translate" -> translatePayload(c, e)
    [] a = "rewrite" -> rewritePayload(c)
    [] a = "followup" -> followupPayload(c, e)
    [] OTHER -> Some(c.selection)

ResultNull == [kind |-> "null", url |-> <<>>]
ResultThrows == [kind |-> "throws", url |-> <<>>]
ResultUrl(u) == [kind |-> "url", url |-> u]

\* if (!payload) return null; return `${baseUrl}${encodeURIComponent(payload)}`
encodeResult(p, pl) ==
  IF ~Truthy(pl) THEN ResultNull
  ELSE LET enc == encodeURIComponent(pl.val)
       IN IF enc.threw THEN ResultThrows ELSE ResultUrl(BaseUrl(p) \o enc.val)

----------------------------------------------------------------------------
(* The inputs of a call *)

\* "https://x.test/a"
PageUrlText ==
  <<"h", "t", "t", "p", "s", ":", "/", "/", "x", ".", "t", "e", "s", "t", "/", "a">>
\* "https://t.test/"
TabUrlText ==
  <<"h", "t", "t", "p", "s", ":", "/", "/", "t", ".", "t", "e", "s", "t", "/">>
\* "Doc"
DocTitleText ==
  <<"D", "o", "c">>
\* "Tab"
TabTitleText ==
  <<"T", "a", "b">>
\* "why?"
QuestionText ==
  <<"w", "h", "y", "?">>
\* "fr"
LangCodeText ==
  <<"f", "r">>
\* "French"
LangNameText ==
  <<"F", "r", "e", "n", "c", "h">>

\* n code units, none of them white space or a surrogate
Fill(n) == [i \in 1..n |-> "a"]

\* the same with a space as code unit number MAX_Q
SpaceAt(n) == [i \in 1..n |-> IF i = MAX_Q THEN " " ELSE "a"]

\* the same with an astral character as code units MAX_Q and MAX_Q + 1
PairAt(n) ==
  [i \in 1..n |-> IF i = MAX_Q THEN HighSurrogate
                  ELSE IF i = MAX_Q + 1 THEN LowSurrogate
                  ELSE "a"]

\* window.getSelection().toString()
DomSelections ==
  {<<>>, <<" ", "\n">>, <<"a", "b">>, <<" ", "a", "\n", "b", " ">>,
   <<"a", HighSurrogate, LowSurrogate>>, <<"a", "%", "2", "0">>, Fill(MAX_Q)}
  \cup {Fill(n) : n \in (MAX_Q + 1)..(MAX_Q + MaxOver)}
  \cup {SpaceAt(n) : n \in (MAX_Q + 1)..(MAX_Q + MaxOver)}
  \cup {PairAt(n) : n \in (MAX_Q + 1)..(MAX_Q + MaxOver)}

\* document.body.innerText.length
BodyTextLengths == {LONG_PAGE_THRESHOLD, LONG_PAGE_THRESHOLD + 1}

\* document.title
DocTitles == {<<>>, <<" ">> \o DocTitleText}

\* window.location.href
Hrefs == {<<>>, <<" ">>, PageUrlText}

\* The snapshot the injected script of extractPageInfo returns when it succeeds
ExtractedPage(sel, len, title, url) ==
  [isNull |-> FALSE, success |-> TRUE, selection |-> Trim(sel),
   pageTextLength |-> len, title |-> title, url |-> url]

\* ... and when it catches an error
FailedPage(title, url) ==
  [isNull |-> FALSE, success |-> FALSE, selection |-> <<>>,
   pageTextLength |-> 0, title |-> title, url |-> url]

\* extractPageInfo returned null
NoPage ==
  [isNull |-> TRUE, success |-> FALSE, selection |-> <<>>,
   pageTextLength |-> 0, title |-> <<>>, url |-> <<>>]

PageInfos ==
  {NoPage}
  \cup {FailedPage(t, u) : t \in DocTitles, u \in Hrefs}
  \cup {ExtractedPage(s, n, t, u) :
          s \in DomSelections, n \in BodyTextLengths, t \in DocTitles, u \in Hrefs}

Tabs ==
  [url : {Null, Some(TabUrlText)}, title : {Null, Some(TabTitleText)}]

NoLanguage == [some |-> FALSE, code |-> <<>>, displayName |-> <<>>]

\* extras.language: absent, or what getPreferredUILanguage resolves
Languages ==
  {NoLanguage,
   [some |-> TRUE, code |-> LangCodeText, displayName |-> LangNameText]}

Questions ==
  {Null, Some(<<>>), Some(<<" ", "\n">>), Some(QuestionText),
   Some(<<" ">> \o QuestionText \o <<"\n">>)}

NoExtras == [language |-> NoLanguage, followupQuestion |-> Null]

\* BuildExtras, varied in the field the action reads
ExtrasFor(a) ==
  IF a = "translate" THEN {[NoExtras EXCEPT !.language = l] : l \in Languages}
  ELSE IF a = "followup" THEN {[NoExtras EXCEPT !.followupQuestion = q] : q \in Questions}
  ELSE {NoExtras}

NoContext ==
  [selection |-> <<>>, truncatedSelection |-> <<>>, hasSelection |-> FALSE,
   selectionIsShort |-> FALSE, selectionIsLong |-> FALSE, pageIsLong |-> FALSE,
   pageUrl |-> Null, title |-> <<>>]

NoResult == [kind |-> "none", url |-> <<>>]

----------------------------------------------------------------------------
(* Settings: isProvider, isOpenMode, normalizeSettings *)

OpenModes == {"popup", "tab"}

DEFAULT_SETTINGS == [provider |-> "perplexity", openMode |-> "popup"]

\* Object.keys(DEFAULT_SETTINGS)
SettingKeys == DOMAIN DEFAULT_SETTINGS

\* A JavaScript value as the store holds it: its type and, for a string, its text
Undefined == [type |-> "undefined", val |-> ""]
Str(text) == [type |-> "string", val |-> text]

\* What may lie under a key: nothing, a member of either enumeration, or
\* something else (a string that is no member, null, a number)
StoredValues ==
  {Undefined, [type |-> "null", val |-> ""], [type |-> "number", val |-> "1"]}
  \cup {Str(text) : text \in {"perplexity", "chatgpt", "claude", "Claude", "popup", "tab"}}

Stores == [provider : StoredValues, openMode : StoredValues]

\* value === 'perplexity' || value === 'chatgpt' || value === 'claude'
isProvider(value) ==
  value = Str("perplexity") \/ value = Str("chatgpt") \/ value = Str("claude")

\* value === 'popup' || value === 'tab'
isOpenMode(value) == value = Str("popup") \/ value = Str("tab")

\* a stored pair is taken as a whole or not at all
normalizeSettingsMutAllOrNothing(stored) ==
  IF isProvider(stored.provider) /\ isOpenMode(stored.openMode)
  THEN [provider |-> stored.provider.val, openMode |-> stored.openMode.val]
  ELSE DEFAULT_SETTINGS

normalizeSettings(stored) ==
  [provider |-> IF isProvider(stored.provider) THEN stored.provider.val
                ELSE DEFAULT_SETTINGS.provider,
   openMode |-> IF isOpenMode(stored.openMode) THEN stored.openMode.val
                ELSE DEFAULT_SETTINGS.openMode]

----------------------------------------------------------------------------
(* ensureDefaultSettings, run at startup and on runtime.onInstalled *)

EnsureRuns == {"startup", "installed"}

\* both defaults are written as soon as one stored value is invalid
updatesMutBothKeys(stored, normalized) ==
  IF isProvider(stored.provider) /\ isOpenMode(stored.openMode)
  THEN [k \in {} |-> ""]
  ELSE [k \in SettingKeys |-> DEFAULT_SETTINGS[k]]

\* The object `updates`: a key for each stored value that is not valid
updates(stored, normalized) ==
  LET keys == (IF ~isProvider(stored.provider) THEN {"provider"} ELSE {})
                \cup (IF ~isOpenMode(stored.openMode) THEN {"openMode"} ELSE {})
  IN [k \in keys |-> normalized[k]]

\* browser.storage.sync.set(items)
storageSet(st, items) ==
  [k \in SettingKeys |-> IF k \in DOMAIN items THEN Str(items[k]) ELSE st[k]]

NoStored == [provider |-> Undefined, openMode |-> Undefined]
NoSettings == [provider |-> "none", openMode |-> "none"]
NoUpdates == [k \in {} |-> ""]

\* A run: where it is, what it read, and the runs that had finished when it read
RunAt(at) ==
  [pc |-> at, stored |-> NoStored, normalized |-> NoSettings,
   updates |-> NoUpdates, after |-> {}]

SettingsIdle ==
  /\ store = NoStored
  /\ ensure = [r \in EnsureRuns |-> RunAt("idle")]
  /\ writes = <<>>

NoTab == [url |-> Null, title |-> Null]

NoTrigger == [source |-> "none", id |-> "", tabArg |-> "undefined"]

TriggerIdle ==
  /\ hpc = "idle"
  /\ trig = NoTrigger
  /\ activeTab = "unresolved"
  /\ settings = NoSettings
  /\ opened = <<>>
  /\ notified = <<>>
  /\ rejection = "none"

NoMenus == [items |-> {}, rootTitle |-> "none"]

MenusIdle ==
  /\ chain = 0
  /\ promises = <<>>
  /\ menus = NoMenus

\* The options page is not open
NoPageState == [settings |-> Null, status |-> "idle", timer |-> FALSE]

OptionsIdle ==
  /\ page = NoPageState
  /\ saves = <<>>

PromptIdle ==
  /\ prompts = <<>>
  /\ overlay = 0

PagesIdle == OptionsIdle /\ PromptIdle

BuildIdle ==
  /\ pc = "idle"
  /\ pageInfo = NoPage
  /\ tab = NoTab
  /\ provider = "none"
  /\ action = "none"
  /\ extras = NoExtras
  /\ context = NoContext
  /\ payload = Null
  /\ result = NoResult

\* The background script starts: the startup run is called; the store holds
\* whatever earlier versions, the options page or sync left in it
InitSettings ==
  /\ store \in Stores
  /\ ensure = [r \in EnsureRuns |-> RunAt(IF r = "startup" THEN "get" ELSE "idle")]
  /\ writes = <<>>
  /\ BuildIdle
  /\ TriggerIdle
  /\ MenusIdle
  /\ PagesIdle

\* runtime.onInstalled fires: void ensureDefaultSettings()
OnInstalled ==
  /\ ensure["installed"].pc = "idle"
  /\ ensure' = [ensure EXCEPT !["installed"].pc = "get"]
  /\ UNCHANGED <<store, writes, nonSettingsVars>>

\* await browser.storage.sync.get(...) resolves; normalized and updates are
\* computed; without updates the run ends
EnsureGet(r) ==
  /\ ensure[r].pc = "get"
  /\ LET normalized == normalizeSettings(store)
         upd == updates(store, normalized)
     IN ensure' = [ensure EXCEPT ![r] =
          [pc |-> IF DOMAIN upd # {} THEN "set" ELSE "done",
           stored |-> store, normalized |-> normalized, updates |-> upd,
           after |-> {q \in EnsureRuns : ensure[q].pc = "done"}]]
  /\ UNCHANGED <<store, writes, nonSettingsVars>>

\* ... or rejects: the run ends with the rejection
EnsureGetFails(r) ==
  /\ ensure[r].pc = "get"
  /\ ensure' = [ensure EXCEPT ![r].pc = "rejected"]
  /\ UNCHANGED <<store, writes, nonSettingsVars>>

\* await browser.storage.sync.set(updates) resolves
EnsureSet(r) ==
  /\ ensure[r].pc = "set"
  /\ store' = storageSet(store, ensure[r].updates)
  /\ writes' = Append(writes, [by |-> r, items |-> ensure[r].updates, ok |-> TRUE])
  /\ ensure' = [ensure EXCEPT ![r].pc = "done"]
  /\ UNCHANGED nonSettingsVars

\* ... or rejects and leaves the store as it was
EnsureSetFails(r) ==
  /\ ensure[r].pc = "set"
  /\ writes' = Append(writes, [by |-> r, items |-> ensure[r].updates, ok |-> FALSE])
  /\ ensure' = [ensure EXCEPT ![r].pc = "rejected"]
  /\ UNCHANGED <<store, nonSettingsVars>>

NextSettings ==
  \/ OnInstalled
  \/ \E r \in EnsureRuns : EnsureGet(r)
  \/ \E r \in EnsureRuns : EnsureGetFails(r)
  \/ \E r \in EnsureRuns : EnsureSet(r)
  \/ \E r \in EnsureRuns : EnsureSetFails(r)

SpecSettings == InitSettings /\ [][NextSettings]_vars

----------------------------------------------------------------------------
(* One call of buildProviderUrl(pageInfo, tab, provider, action, extras) *)

Init ==
  /\ pc = "start"
  /\ pageInfo \in PageInfos
  /\ tab \in Tabs
  /\ provider = "none"
  /\ action = "none"
  /\ extras = NoExtras
  /\ context = NoContext
  /\ payload = Null
  /\ result = NoResult
  /\ SettingsIdle
  /\ TriggerIdle
  /\ MenusIdle
  /\ PagesIdle

\* The call and its first statements: baseUrl, context, payload = null
Enter ==
  /\ pc = "start"
  /\ context' = createPageContext(pageInfo, tab)
  /\ \E p \in Providers, a \in Actions :
       \E e \in ExtrasFor(a) :
         /\ provider' = p
         /\ action' = a
         /\ extras' = e
  /\ pc' = "switch"
  /\ UNCHANGED <<pageInfo, tab, payload, result>>
  /\ UNCHANGED hostVars

\* switch (action) { ... }
Switch ==
  /\ pc = "switch"
  /\ IF returnsEarly(action, extras)
     THEN /\ result' = ResultNull
          /\ pc' = "done"
          /\ UNCHANGED payload
     ELSE /\ payload' = switchPayload(context, action, extras)
          /\ pc' = "encode"
          /\ UNCHANGED result
  /\ UNCHANGED <<pageInfo, tab, provider, action, extras, context>>
  /\ UNCHANGED hostVars

\* if (!payload) return null; return baseUrl + encodeURIComponent(payload)
Encode ==
  /\ pc = "encode"
  /\ result' = encodeResult(provider, payload)
  /\ pc' = "done"
  /\ UNCHANGED <<pageInfo, tab, provider, action, extras, context, payload>>
  /\ UNCHANGED hostVars

Next == Enter \/ Switch \/ Encode

Spec == Init /\ [][Next]_vars

----------------------------------------------------------------------------
(* The same call on every failed snapshot the type PageExtractionResult    *)
(* admits: success = false with any selection and any page length.         *)

FailedSnapshots ==
  [isNull : {FALSE}, success : {FALSE},
   selection : {<<>>, <<"a", "b">>, Fill(MAX_Q + 1)},
   pageTextLength : {0, LONG_PAGE_THRESHOLD + 1},
   title : DocTitles, url : Hrefs]

InitFailedSnapshot ==
  /\ pc = "start"
  /\ pageInfo \in {NoPage} \cup FailedSnapshots
  /\ tab \in Tabs
  /\ provider = "none"
  /\ action = "none"
  /\ extras = NoExtras
  /\ context = NoContext
  /\ payload = Null
  /\ result = NoResult
  /\ SettingsIdle
  /\ TriggerIdle
  /\ MenusIdle
  /\ PagesIdle

SpecFailedSnapshot == InitFailedSnapshot /\ [][Next]_vars

----------------------------------------------------------------------------
(* handleTrigger(tab, action): one run, from the listener that calls it to *)
(* the end of its promise                                                  *)

MsgNoTab == "Unable to get the current page information. Please try again."
MsgNoQuestion == "Unable to generate the question. Please try again."
MsgOpenFailed == "Failed to open. Please try again or switch the provider."

CONTEXT_MENU_ROOT_ID == "chatonpage.ask"
CONTEXT_MENU_SUMMARY_ID == "chatonpage.ask.summary"
CONTEXT_MENU_TRANSLATE_ID == "chatonpage.ask.translate"
CONTEXT_MENU_REWRITE_ID == "chatonpage.ask.rewrite"
CONTEXT_MENU_FOLLOWUP_ID == "chatonpage.ask.followup"
COMMAND_ID == "chatonpage-open-provider"

\* The names under manifest.commands: of wxt.config.ts, and of the two other
\* configurations kept in the repository
ManifestCommands == {"ask-ai", "trigger-ai-search", "chatonpage-open-provider"}

\* info.menuItemId of a click: an item of the extension, or any other id
MenuItemIds ==
  {CONTEXT_MENU_ROOT_ID, CONTEXT_MENU_SUMMARY_ID, CONTEXT_MENU_TRANSLATE_ID,
   CONTEXT_MENU_REWRITE_ID, CONTEXT_MENU_FOLLOWUP_ID, "other"}

\* The events the browser delivers to the listeners, and the tab each may
\* pass: none, one without id, one with id. A command event carries a name
\* the manifest declares.
Triggers ==
  {[source |-> "toolbar", id |-> "", tabArg |-> t] : t \in {"noId", "withId"}}
  \cup {[source |-> "menu", id |-> m, tabArg |-> t] :
          m \in MenuItemIds, t \in {"undefined", "noId", "withId"}}
  \cup {[source |-> "command", id |-> c, tabArg |-> "undefined"] :
          c \in ManifestCommands}

\* The action the listener of the event passes to handleTrigger; "none" when
\* the listener makes no call
listenerAction(t) ==
  CASE t.source = "toolbar" -> "summary"
    [] t.source = "menu" ->
         CASE t.id = CONTEXT_MENU_SUMMARY_ID -> "summary"
           [] t.id = CONTEXT_MENU_TRANSLATE_ID -> "translate"
           [] t.id = CONTEXT_MENU_REWRITE_ID -> "rewrite"
           [] t.id = CONTEXT_MENU_FOLLOWUP_ID -> "followup"
           [] OTHER -> "none"
    [] t.source = "command" -> IF t.id = COMMAND_ID THEN "summary" ELSE "none"

TriggerStores ==
  [provider : {Undefined, [type |-> "number", val |-> "1"], Str("perplexity"),
               Str("chatgpt"), Str("claude"), Str("Claude")},
   openMode : {Undefined, Str("popup"), Str("tab")}]

\* url and title of the tab the run works on
TriggerTabs == {NoTab, [url |-> Some(TabUrlText), title |-> Some(TabTitleText)]}

\* What extractPageInfo may return to the run
TriggerPageInfos ==
  {NoPage,
   ExtractedPage(<<>>, LONG_PAGE_THRESHOLD, <<>>, <<>>),
   ExtractedPage(<<"a", "b">>, LONG_PAGE_THRESHOLD + 1, DocTitleText, PageUrlText),
   ExtractedPage(PairAt(MAX_Q + 1), LONG_PAGE_THRESHOLD, <<>>, <<>>)}

\* What getPreferredUILanguage returns
UILanguage == [some |-> TRUE, code |-> LangCodeText, displayName |-> LangNameText]

\* What requestFollowupQuestion returns: null, or a trimmed non-empty string
PromptAnswers == {Null, Some(QuestionText)}

\* tab?.id !== undefined
hasTabId(tabArg) == tabArg = "withId"

getSettings(st) == normalizeSettings(st)

buildProviderUrl(pi, t, p, a, e) ==
  IF returnsEarly(a, e) THEN ResultNull
  ELSE encodeResult(p, switchPayload(createPageContext(pi, t), a, e))

\* mode === 'popup' ? browser.windows.create : browser.tabs.create
openApi(mode) == IF mode = "popup" THEN "windows.create" ELSE "tabs.create"

\* a failed open is tried again
afterOpenProviderMutRetry(ok) == IF ok THEN "returned" ELSE "open"

\* try { await openProvider(...) } catch { await notifyFailure(...) }
afterOpenProvider(ok) == IF ok THEN "returned" ELSE "notifyOpen"

\* a rejection of notifications.create leaves notifyFailure
afterNotifyFailureMutPropagates(ok) == IF ok THEN "returned" ELSE "rejected"

\* try { await browser.notifications.create(...) } catch { console.error }:
\* notifyFailure resolves either way, and handleTrigger returns after it
afterNotifyFailure(ok) == "returned"

\* The message of the notifyFailure call the run is at
notifyMessage(at) ==
  CASE at = "notifyTab" -> MsgNoTab
    [] at = "notifyQuestion" -> MsgNoQuestion
    [] at = "notifyOpen" -> MsgOpenFailed

\* The browser delivers an event to its listener
InitTrigger ==
  /\ hpc = "listener"
  /\ trig \in Triggers
  /\ action = "none"
  /\ store \in TriggerStores
  /\ ensure = [r \in EnsureRuns |-> RunAt("idle")]
  /\ writes = <<>>
  /\ activeTab = "unresolved"
  /\ settings = NoSettings
  /\ opened = <<>>
  /\ notified = <<>>
  /\ rejection = "none"
  /\ pc = "idle"
  /\ pageInfo = NoPage
  /\ tab = NoTab
  /\ provider = "none"
  /\ extras = NoExtras
  /\ context = NoContext
  /\ payload = Null
  /\ result = NoResult
  /\ MenusIdle
  /\ PagesIdle

\* The listener runs: void handleTrigger(tab, action), or nothing
Listener ==
  /\ hpc = "listener"
  /\ action' = listenerAction(trig)
  /\ hpc' = IF action' = "none" THEN "ignored" ELSE "tab"
  /\ UNCHANGED <<trig, activeTab, settings, opened, notified, rejection, nonTriggerVars>>
  /\ UNCHANGED <<pc, pageInfo, tab, provider, extras, context, payload, result>>

\* activeTab = tab, the listener's tab having an id
UseTabArg ==
  /\ hpc = "tab"
  /\ hasTabId(trig.tabArg)
  /\ activeTab' = trig.tabArg
  /\ tab' \in TriggerTabs
  /\ hpc' = "settings"
  /\ UNCHANGED <<trig, settings, opened, notified, rejection, nonTriggerVars>>
  /\ UNCHANGED <<pc, pageInfo, provider, action, extras, context, payload, result>>

\* activeTab = await getActiveTab(); if (!activeTab?.id) notifyFailure, return
GetActiveTab ==
  /\ hpc = "tab"
  /\ ~hasTabId(trig.tabArg)
  /\ \E found \in {"undefined", "noId", "withId"} :
       /\ activeTab' = found
       /\ IF found = "withId"
          THEN tab' \in TriggerTabs /\ hpc' = "settings"
          ELSE tab' = tab /\ hpc' = "notifyTab"
  /\ UNCHANGED <<trig, settings, opened, notified, rejection, nonTriggerVars>>
  /\ UNCHANGED <<pc, pageInfo, provider, action, extras, context, payload, result>>

\* browser.tabs.query rejects: nothing catches it
GetActiveTabFails ==
  /\ hpc = "tab"
  /\ ~hasTabId(trig.tabArg)
  /\ hpc' = "rejected"
  /\ rejection' = "tabs.query"
  /\ UNCHANGED <<trig, activeTab, settings, opened, notified, nonTriggerVars, buildVars>>

\* const settings = await getSettings()
GetSettings ==
  /\ hpc = "settings"
  /\ settings' = getSettings(store)
  /\ hpc' = "extract"
  /\ UNCHANGED <<trig, activeTab, opened, notified, rejection, nonTriggerVars, buildVars>>

\* browser.storage.sync.get rejects: getSettings and handleTrigger have no catch
GetSettingsFails ==
  /\ hpc = "settings"
  /\ hpc' = "rejected"
  /\ rejection' = "storage.sync.get"
  /\ UNCHANGED <<trig, activeTab, settings, opened, notified, nonTriggerVars, buildVars>>

\* const pageInfo = await extractPageInfo(activeTab.id); extras, with the
\* language for translate
ExtractPageInfo ==
  /\ hpc = "extract"
  /\ pageInfo' \in TriggerPageInfos
  /\ extras' = IF action = "translate" THEN [NoExtras EXCEPT !.language = UILanguage]
               ELSE NoExtras
  /\ hpc' = IF action = "followup" THEN "question" ELSE "build"
  /\ UNCHANGED <<trig, activeTab, settings, opened, notified, rejection, nonTriggerVars>>
  /\ UNCHANGED <<pc, tab, provider, action, context, payload, result>>

\* followupQuestion = await requestFollowupQuestion(...); if (!followupQuestion) return
RequestFollowupQuestion ==
  /\ hpc = "question"
  /\ \E answer \in PromptAnswers :
       IF ~Truthy(answer)
       THEN hpc' = "returned" /\ UNCHANGED extras
       ELSE extras' = [extras EXCEPT !.followupQuestion = answer] /\ hpc' = "build"
  /\ UNCHANGED <<trig, activeTab, settings, opened, notified, rejection, nonTriggerVars>>
  /\ UNCHANGED <<pc, pageInfo, tab, provider, action, context, payload, result>>

\* targetUrl = buildProviderUrl(pageInfo, activeTab, settings.provider, action, extras);
\* a URIError leaves handleTrigger; if (!targetUrl) notifyFailure, return
BuildUrl ==
  /\ hpc = "build"
  /\ provider' = settings.provider
  /\ context' = createPageContext(pageInfo, tab)
  /\ payload' = IF returnsEarly(action, extras) THEN Null
                ELSE switchPayload(context', action, extras)
  /\ result' = buildProviderUrl(pageInfo, tab, settings.provider, action, extras)
  /\ hpc' = CASE result'.kind = "throws" -> "rejected"
              [] result'.kind = "null" -> "notifyQuestion"
              [] result'.kind = "url" -> "open"
  /\ rejection' = IF result'.kind = "throws" THEN "URIError" ELSE rejection
  /\ UNCHANGED <<trig, activeTab, settings, opened, notified, nonTriggerVars>>
  /\ UNCHANGED <<pc, pageInfo, tab, action, extras>>

\* await openProvider(targetUrl, settings.openMode), resolving or rejecting
OpenProvider ==
  /\ hpc = "open"
  /\ \E ok \in BOOLEAN :
       /\ opened' = Append(opened, [api |-> openApi(settings.openMode),
                                     url |-> result.url, ok |-> ok])
       /\ hpc' = afterOpenProvider(ok)
  /\ UNCHANGED <<trig, activeTab, settings, notified, rejection, nonTriggerVars, buildVars>>

\* await notifyFailure(message): notifications.create resolves, or rejects
\* and the rejection is caught and logged
NotifyFailure ==
  /\ hpc \in {"notifyTab", "notifyQuestion", "notifyOpen"}
  /\ \E ok \in BOOLEAN :
       /\ notified' = Append(notified, [message |-> notifyMessage(hpc), ok |-> ok])
       /\ hpc' = afterNotifyFailure(ok)
  /\ UNCHANGED <<trig, activeTab, settings, opened, rejection, nonTriggerVars, buildVars>>

NextTrigger ==
  \/ Listener
  \/ UseTabArg
  \/ GetActiveTab
  \/ GetActiveTabFails
  \/ GetSettings
  \/ GetSettingsFails
  \/ ExtractPageInfo
  \/ RequestFollowupQuestion
  \/ BuildUrl
  \/ OpenProvider
  \/ NotifyFailure

SpecTrigger == InitTrigger /\ [][NextTrigger]_vars

----------------------------------------------------------------------------
(* setupContextMenus: each call chains a run of the body to                *)
(* setupContextMenusChain with then(run, run)                              *)


PROVIDER_LABELS ==
  [perplexity |-> "Perplexity", chatgpt |-> "ChatGPT", claude |-> "Claude"]

\* the removal loop leaves the root item alone
idsToRemoveMutChildrenOnly ==
  <<CONTEXT_MENU_FOLLOWUP_ID, CONTEXT_MENU_REWRITE_ID, CONTEXT_MENU_TRANSLATE_ID,
    CONTEXT_MENU_SUMMARY_ID, CONTEXT_MENU_SUMMARY_ID>>

idsToRemove ==
  <<CONTEXT_MENU_FOLLOWUP_ID, CONTEXT_MENU_REWRITE_ID, CONTEXT_MENU_TRANSLATE_ID,
    CONTEXT_MENU_SUMMARY_ID, CONTEXT_MENU_ROOT_ID>>

\* The items in the order the body creates them
idsToCreate ==
  <<CONTEXT_MENU_ROOT_ID, CONTEXT_MENU_SUMMARY_ID, CONTEXT_MENU_TRANSLATE_ID,
    CONTEXT_MENU_REWRITE_ID, CONTEXT_MENU_FOLLOWUP_ID>>

(* Bound of the model: how many times setupContextMenus is called.         *)
MaxCalls == 3

\* browser.contextMenus.remove(id): the item goes, the root with its children;
\* for an item that does not exist the call rejects and the body goes on
menusRemove(m, id) ==
  IF id \notin m.items THEN m
  ELSE IF id = CONTEXT_MENU_ROOT_ID THEN NoMenus
  ELSE [m EXCEPT !.items = @ \ {id}]

\* browser.contextMenus.create rejects for an id in use or a missing parent
createFails(m, id) ==
  id \in m.items \/ (id # CONTEXT_MENU_ROOT_ID /\ CONTEXT_MENU_ROOT_ID \notin m.items)

menusCreate(m, id, title) ==
  [items |-> m.items \cup {id},
   rootTitle |-> IF id = CONTEXT_MENU_ROOT_ID THEN title ELSE m.rootTitle]

\* the body runs as soon as it is chained
settledMutAlways(state) == TRUE

\* A promise is settled once the run it stands for has ended
settled(state) == state \in {"fulfilled", "rejected"}

\* The two arguments of then(run, run)
onFulfilled == "run"
onRejected == "run"

\* The promise setupContextMenusChain.then(run, run), before its reaction
NewPromise(caller) ==
  [caller |-> caller, parent |-> chain, state |-> "pending",
   phase |-> "none", index |-> 0, title |-> "none"]

ParentState(k) ==
  IF promises[k].parent = 0 THEN "fulfilled" ELSE promises[promises[k].parent].state

Called(caller) == \E k \in 1..Len(promises) : promises[k].caller = caller

\* The menus of an earlier session may still be registered
InitMenus ==
  /\ chain = 0
  /\ promises = <<>>
  /\ menus \in {NoMenus,
                [items |-> {idsToCreate[i] : i \in 1..Len(idsToCreate)},
                 rootTitle |-> PROVIDER_LABELS["perplexity"]]}
  /\ store \in {NoStored, [provider |-> Str("chatgpt"), openMode |-> Str("tab")]}
  /\ ensure = [r \in EnsureRuns |-> RunAt("idle")]
  /\ writes = <<>>
  /\ BuildIdle
  /\ TriggerIdle
  /\ PagesIdle

\* setupContextMenusChain = setupContextMenusChain.then(run, run)
Chain(caller) ==
  /\ Len(promises) < MaxCalls
  /\ promises' = Append(promises, NewPromise(caller))
  /\ chain' = Len(promises) + 1

\* the startup function, after ensureDefaultSettings: await setupContextMenus()
StartupCall ==
  /\ ~Called("startup")
  /\ Chain("startup")
  /\ UNCHANGED <<menus, settingsVars, buildVars, triggerVars, pageVars>>

\* runtime.onInstalled: void setupContextMenus()
OnInstalledCall ==
  /\ Chain("installed")
  /\ UNCHANGED <<menus, settingsVars, buildVars, triggerVars, pageVars>>

\* storage.onChanged with changes.provider in area 'sync': void setupContextMenus()
OnProviderChanged ==
  /\ \E p \in Providers :
       /\ store.provider # Str(p)
       /\ store' = [store EXCEPT !.provider = Str(p)]
  /\ Chain("changed")
  /\ UNCHANGED <<menus, ensure, writes, buildVars, triggerVars, pageVars>>

\* The reaction of then(run, run) once the promise before it is settled:
\* the handler for its outcome is called; without a handler the outcome
\* passes through
React(k) ==
  /\ promises[k].state = "pending"
  /\ settled(ParentState(k))
  /\ LET handler == IF ParentState(k) = "rejected" THEN onRejected ELSE onFulfilled
     IN promises' = [promises EXCEPT ![k] =
          IF handler = "run"
          THEN [@ EXCEPT !.state = "running", !.phase = "remove", !.index = 1]
          ELSE [@ EXCEPT !.state = ParentState(k)]]
  /\ UNCHANGED <<chain, menus, settingsVars, buildVars, triggerVars, pageVars>>

\* for (const id of idsToRemove) { try { await remove(id) } catch { ... } }
RemoveItem(k) ==
  /\ promises[k].state = "running"
  /\ promises[k].phase = "remove"
  /\ menus' = menusRemove(menus, idsToRemove[promises[k].index])
  /\ promises' = [promises EXCEPT ![k] =
       IF @.index < Len(idsToRemove) THEN [@ EXCEPT !.index = @ + 1]
       ELSE [@ EXCEPT !.phase = "settings", !.index = 0]]
  /\ UNCHANGED <<chain, settingsVars, buildVars, triggerVars, pageVars>>

\* const settings = await getSettings(); rootTitle
ReadSettings(k) ==
  /\ promises[k].state = "running"
  /\ promises[k].phase = "settings"
  /\ promises' = [promises EXCEPT ![k] =
       [@ EXCEPT !.phase = "create", !.index = 1,
                 !.title = PROVIDER_LABELS[getSettings(store).provider]]]
  /\ UNCHANGED <<chain, menus, settingsVars, buildVars, triggerVars, pageVars>>

\* ... or storage.sync.get rejects, outside every try of the body: the run rejects
ReadSettingsFails(k) ==
  /\ promises[k].state = "running"
  /\ promises[k].phase = "settings"
  /\ promises' = [promises EXCEPT ![k].state = "rejected"]
  /\ UNCHANGED <<chain, menus, settingsVars, buildVars, triggerVars, pageVars>>

\* try { await create(root); await create(summary); ... } catch { log }
CreateItem(k) ==
  /\ promises[k].state = "running"
  /\ promises[k].phase = "create"
  /\ LET id == idsToCreate[promises[k].index]
     IN IF createFails(menus, id)
        THEN /\ promises' = [promises EXCEPT ![k].state = "fulfilled"]
             /\ UNCHANGED menus
        ELSE /\ menus' = menusCreate(menus, id, promises[k].title)
             /\ promises' = [promises EXCEPT ![k] =
                  IF @.index < Len(idsToCreate) THEN [@ EXCEPT !.index = @ + 1]
                  ELSE [@ EXCEPT !.state = "fulfilled"]]
  /\ UNCHANGED <<chain, settingsVars, buildVars, triggerVars, pageVars>>

NextMenus ==
  \/ StartupCall
  \/ OnInstalledCall
  \/ OnProviderChanged
  \/ \E k \in 1..Len(promises) : React(k)
  \/ \E k \in 1..Len(promises) : RemoveItem(k)
  \/ \E k \in 1..Len(promises) : ReadSettings(k)
  \/ \E k \in 1..Len(promises) : ReadSettingsFails(k)
  \/ \E k \in 1..Len(promises) : CreateItem(k)

SpecMenus == InitMenus /\ [][NextMenus]_vars

----------------------------------------------------------------------------
(* setupContextMenus of src/entrypoints/background.ts: the same body, but  *)
(* without the chain.  Every call runs the body at once, up to its first   *)
(* await, and the runs interleave at their awaits.  The body's steps are   *)
(* the actions RemoveItem, ReadSettings and CreateItem above.              *)

(* Bound of the model: how many times the unchained setupContextMenus is   *)
(* called.                                                                 *)
MaxRuns == 2

\* The call: the run is in its removal loop, before its first await
NewRun(caller) ==
  [caller |-> caller, parent |-> 0, state |-> "running",
   phase |-> "remove", index |-> 1, title |-> "none"]

\* defineBackground: void setupContextMenus()
StartupRun ==
  /\ promises = <<>>
  /\ promises' = <<NewRun("startup")>>
  /\ UNCHANGED <<chain, menus, settingsVars, buildVars, triggerVars, pageVars>>

\* runtime.onInstalled: void setupContextMenus()
OnInstalledRun ==
  /\ promises # <<>>
  /\ Len(promises) < MaxRuns
  /\ promises' = Append(promises, NewRun("installed"))
  /\ UNCHANGED <<chain, menus, settingsVars, buildVars, triggerVars, pageVars>>

\* A write changes the stored provider; storage.onChanged with
\* changes.provider in area 'sync': void setupContextMenus()
OnProviderChangedRun ==
  /\ promises # <<>>
  /\ Len(promises) < MaxRuns
  /\ \E p \in Providers :
       /\ store.provider # Str(p)
       /\ store' = [store EXCEPT !.provider = Str(p)]
  /\ promises' = Append(promises, NewRun("changed"))
  /\ UNCHANGED <<chain, menus, ensure, writes, buildVars, triggerVars, pageVars>>

NextMenusUnchained ==
  \/ StartupRun
  \/ OnInstalledRun
  \/ OnProviderChangedRun
  \/ \E k \in 1..Len(promises) : RemoveItem(k)
  \/ \E k \in 1..Len(promises) : ReadSettings(k)
  \/ \E k \in 1..Len(promises) : CreateItem(k)

SpecMenusUnchained == InitMenus /\ [][NextMenusUnchained]_vars

----------------------------------------------------------------------------
(* The options page (src/unnamed/part_002): the component App with its     *)
(* state settings, status and the reset timer; loadSettings on mount;      *)
(* updateSetting on every change of a radio button.  A call of             *)
(* updateSetting stays in flight from storage.sync.set to the continuation *)
(* after its await.                                                        *)

(* Bound of the model: how many times updateSetting is called.             *)
MaxSaves == 2

\* PROVIDER_OPTIONS and OPEN_MODE_OPTIONS: the values of the radio buttons
OptionValues(key) == IF key = "provider" THEN Providers ELSE OpenModes

\* { ...DEFAULT_SETTINGS, ...stored }: every value the store holds, of
\* whatever type, replaces the default
loadedSettings(stored) ==
  [k \in SettingKeys |->
     IF stored[k] = Undefined THEN Str(DEFAULT_SETTINGS[k]) ELSE stored[k]]

\* The saves whose promise the page still awaits
InFlight == {i \in 1..Len(saves) : saves[i].state \in {"pending", "written"}}

\* The page is opened: the component mounts and calls loadSettings
InitOptions ==
  /\ page = NoPageState
  /\ saves = <<>>
  /\ store \in [provider : {Str(p) : p \in Providers}, openMode : {Str(m) : m \in OpenModes}]
  /\ ensure = [r \in EnsureRuns |-> RunAt("idle")]
  /\ writes = <<>>
  /\ BuildIdle
  /\ TriggerIdle
  /\ MenusIdle
  /\ PromptIdle

\* loadSettings: const stored = await storage.sync.get(...); setSettings(...)
LoadSettings ==
  /\ ~page.settings.some
  /\ page.status = "idle"
  /\ page' = [page EXCEPT !.settings = Some(loadedSettings(store))]
  /\ UNCHANGED <<saves, settingsVars, buildVars, triggerVars, menuVars, promptVars>>

\* ... or the read rejects: setStatus('error'), settings stay null
LoadSettingsFails ==
  /\ ~page.settings.some
  /\ page.status = "idle"
  /\ page' = [page EXCEPT !.status = "error"]
  /\ UNCHANGED <<saves, settingsVars, buildVars, triggerVars, menuVars, promptVars>>

\* updateSetting(key, value), up to its await: the user picks a radio button
\* that is not the checked one
UpdateSetting ==
  /\ page.settings.some
  /\ Len(saves) < MaxSaves
  /\ \E key \in SettingKeys :
       \E value \in OptionValues(key) :
         /\ page.settings.val[key] # Str(value)
         /\ page' = [page EXCEPT !.settings = Some([@.val EXCEPT ![key] = Str(value)]),
                                  !.status = "saving"]
         /\ saves' = Append(saves, [key |-> key, value |-> value, state |-> "pending"])
  /\ UNCHANGED <<settingsVars, buildVars, triggerVars, menuVars, promptVars>>

\* browser.storage.sync.set({ [key]: value }) takes effect
SaveWritten(i) ==
  /\ saves[i].state = "pending"
  /\ LET items == (saves[i].key :> saves[i].value)
     IN /\ store' = storageSet(store, items)
        /\ writes' = Append(writes, [by |-> "options", items |-> items, ok |-> TRUE])
  /\ saves' = [saves EXCEPT ![i].state = "written"]
  /\ UNCHANGED <<page, ensure, buildVars, triggerVars, menuVars, promptVars>>

\* the await returns: setStatus('saved'), the reset timer is set anew
SaveResolved(i) ==
  /\ saves[i].state = "written"
  /\ saves' = [saves EXCEPT ![i].state = "saved"]
  /\ page' = [page EXCEPT !.status = "saved", !.timer = TRUE]
  /\ UNCHANGED <<settingsVars, buildVars, triggerVars, menuVars, promptVars>>

\* the set rejects, the store as it was: setStatus('error')
SaveRejected(i) ==
  /\ saves[i].state = "pending"
  /\ saves' = [saves EXCEPT ![i].state = "failed"]
  /\ page' = [page EXCEPT !.status = "error"]
  /\ UNCHANGED <<settingsVars, buildVars, triggerVars, menuVars, promptVars>>

\* the timeout of 1600 ms: setStatus('idle')
ResetTimer ==
  /\ page.timer
  /\ page' = [page EXCEPT !.status = "idle", !.timer = FALSE]
  /\ UNCHANGED <<saves, settingsVars, buildVars, triggerVars, menuVars, promptVars>>

NextOptions ==
  \/ LoadSettings
  \/ LoadSettingsFails
  \/ UpdateSetting
  \/ \E i \in 1..Len(saves) : SaveWritten(i)
  \/ \E i \in 1..Len(saves) : SaveResolved(i)
  \/ \E i \in 1..Len(saves) : SaveRejected(i)
  \/ ResetTimer

SpecOptions == InitOptions /\ [][NextOptions]_vars

\* The background script starts while the options page is open, on a store
\* that lacks a key or holds a value that is no member
InitSettingsRace ==
  /\ store \in {NoStored, [provider |-> Str("Claude"), openMode |-> Str("tab")]}
  /\ ensure = [r \in EnsureRuns |-> RunAt(IF r = "startup" THEN "get" ELSE "idle")]
  /\ writes = <<>>
  /\ page = NoPageState
  /\ saves = <<>>
  /\ BuildIdle
  /\ TriggerIdle
  /\ MenusIdle
  /\ PromptIdle

NextSettingsRace ==
  \/ OnInstalled
  \/ \E r \in EnsureRuns : EnsureGet(r)
  \/ \E r \in EnsureRuns : EnsureGetFails(r)
  \/ \E r \in EnsureRuns : EnsureSet(r)
  \/ \E r \in EnsureRuns : EnsureSetFails(r)
  \/ LoadSettings
  \/ LoadSettingsFails
  \/ UpdateSetting
  \/ \E i \in 1..Len(saves) : SaveWritten(i)
  \/ \E i \in 1..Len(saves) : SaveResolved(i)
  \/ \E i \in 1..Len(saves) : SaveRejected(i)
  \/ ResetTimer

SpecSettingsRace == InitSettingsRace /\ [][NextSettingsRace]_vars

----------------------------------------------------------------------------
(* showFollowupPrompt, the function requestFollowupQuestion injects into   *)
(* the tab: every followup trigger on the tab calls it once, in the same   *)
(* document.  A call returns a promise; its overlay element carries the    *)
(* listeners that resolve it.                                              *)

(* Bound of the model: how many followup triggers the tab gets.            *)
MaxPrompts == 4

\* textarea.value when the user submits
TextareaValues == {<<>>, <<" ">>, <<" ", "q", "?", " ">>}

\* The events the listeners of the overlay handle with cleanup(null)
CancelEvents == {"cancelButton", "Escape", "backdrop"}

\* handleSubmit: const value = textarea.value.trim();
\* cleanup(value.length > 0 ? value : null)
submitValue(text) == IF Len(Trim(text)) > 0 THEN Some(Trim(text)) ELSE Null

PendingPrompt == [state |-> "pending", value |-> Null, by |-> "none"]

\* resolve(value), called from within by
ResolvedPrompt(value, by) == [state |-> "resolved", value |-> value, by |-> by]

\* The tab is loaded and no prompt has been asked for
InitPrompt ==
  /\ prompts = <<>>
  /\ overlay = 0
  /\ SettingsIdle
  /\ BuildIdle
  /\ TriggerIdle
  /\ MenusIdle
  /\ OptionsIdle

\* showFollowupPrompt() with a document body: an overlay of an earlier call
\* is removed from the document, the new overlay is appended
ShowFollowupPrompt ==
  /\ Len(prompts) < MaxPrompts
  /\ prompts' = Append(prompts, PendingPrompt)
  /\ overlay' = Len(prompts) + 1
  /\ UNCHANGED <<settingsVars, buildVars, triggerVars, menuVars, optionsVars>>

\* showFollowupPrompt() in a document without body: resolve(null)
ShowWithoutBody ==
  /\ Len(prompts) < MaxPrompts
  /\ overlay = 0
  /\ prompts' = Append(prompts, ResolvedPrompt(Null, "noBody"))
  /\ UNCHANGED <<overlay, settingsVars, buildVars, triggerVars, menuVars, optionsVars>>

\* cleanup(value) of the call whose overlay the user sees: resolved = true,
\* overlay.remove(), resolve(value)
Cleanup(value, by) ==
  /\ overlay # 0
  /\ prompts[overlay].state = "pending"
  /\ prompts' = [prompts EXCEPT ![overlay] = ResolvedPrompt(value, by)]
  /\ overlay' = 0
  /\ UNCHANGED <<settingsVars, buildVars, triggerVars, menuVars, optionsVars>>

\* The user clicks Cancel or the backdrop, or presses Escape
UserCancels == \E event \in CancelEvents : Cleanup(Null, event)

\* The user clicks Send or presses Ctrl/Cmd + Enter
UserSubmits == \E text \in TextareaValues : Cleanup(submitValue(text), "submit")

NextPrompt ==
  \/ ShowFollowupPrompt
  \/ ShowWithoutBody
  \/ UserCancels
  \/ UserSubmits

SpecPrompt == InitPrompt /\ [][NextPrompt]_vars

----------------------------------------------------------------------------
(* Vocabulary of the properties, stated on the arguments of the call *)

\* The snapshot's selection after trimming
SnapshotSelection == Trim(pageInfo.selection)

NoSelection == Len(SnapshotSelection) = 0
ShortSelection == Len(SnapshotSelection) > 0 /\ Len(SnapshotSelection) <= MAX_Q
LongSelection == Len(SnapshotSelection) > MAX_Q

\* The first MAX_Q code units of the selection, trailing white space removed
SelectionExcerpt == Trim(SubSeq(SnapshotSelection, 1, Min(MAX_Q, Len(SnapshotSelection))))

HasUrl == Truthy(context.pageUrl)
HasTitle == Len(context.title) > 0

\* The follow-up question after trimming
TrimmedQuestion ==
  IF extras.followupQuestion.some THEN Trim(extras.followupQuestion.val) ELSE <<>>

Returned(a) == pc = "done" /\ action = a

\* The URLs the two arguments carry, and a string without visible content
SnapshotUrl == IF pageInfo.isNull THEN <<>> ELSE pageInfo.url
TabUrl == IF tab.url.some THEN tab.url.val ELSE <<>>
Blank(s) == \A i \in 1..Len(s) : s[i] \in WhiteSpace

EndsWith(s, q) ==
  Len(s) >= Len(q) /\ SubSeq(s, Len(s) - Len(q) + 1, Len(s)) = q

\* "Summarize this page: "
PhraseSummarizeThisPage ==
  <<"S", "u", "m", "m", "a", "r", "i", "z", "e", " ", "t", "h", "i", "s", " ", "p", "a", "g", "e", ":", " ">>

\* "Translate the following into "
PhraseTranslateFollowing ==
  <<"T", "r", "a", "n", "s", "l", "a", "t", "e", " ", "t", "h", "e", " ", "f", "o", "l", "l", "o", "w", "i", "n", "g", " ", "i", "n", "t", "o", " ">>

\* " (long content; partial excerpt): "
PhrasePartialExcerpt ==
  <<" ", "(", "l", "o", "n", "g", " ", "c", "o", "n", "t", "e", "n", "t", ";", " ", "p", "a", "r", "t", "i", "a", "l", " ", "e", "x", "c", "e", "r", "p", "t", ")", ":", " ">>

----------------------------------------------------------------------------
(* C1: for the summary action, a selection that is non-empty after         *)
(* trimming and at most 1500 code units long is the payload, verbatim,     *)
(* whatever the page length, the URL and the title.                        *)
C1_SummaryShortSelectionVerbatim ==
  (Returned("summary") /\ ShortSelection) => payload = Some(SnapshotSelection)

\* a selection of exactly 1500 code units on a long page that has a URL and a title
C1_Witness ==
  /\ Returned("summary")
  /\ Len(SnapshotSelection) = MAX_Q
  /\ pageInfo.pageTextLength > LONG_PAGE_THRESHOLD
  /\ HasUrl /\ HasTitle
  /\ payload = Some(SnapshotSelection)

(* C2: for the summary action, a selection longer than 1500 code units is  *)
(* never the payload as it stands: the payload is the page URL or a string *)
(* of at most 1500 code units.                                             *)
C2_SummaryLongSelectionNeverRaw ==
  (Returned("summary") /\ LongSelection) =>
    /\ payload.some
    /\ payload.val # SnapshotSelection
    /\ \/ (HasUrl /\ payload.val = context.pageUrl.val)
       \/ Len(payload.val) <= MAX_Q

\* a long selection on a page without URL: the payload is the cut selection
C2_Witness ==
  /\ Returned("summary")
  /\ LongSelection
  /\ ~HasUrl
  /\ payload.some /\ Len(payload.val) = MAX_Q

(* C3: for the summary action without selection and with a URL, the        *)
(* payload is the bare URL when the page text is longer than 4000, and is  *)
(* not the bare URL when the page text length is 4000 or less.             *)
C3_SummaryLongPageBareUrl ==
  (Returned("summary") /\ NoSelection /\ HasUrl) =>
    IF pageInfo.pageTextLength > LONG_PAGE_THRESHOLD
    THEN payload = Some(context.pageUrl.val)
    ELSE payload.some /\ payload.val # context.pageUrl.val

\* a page of 4001 characters with a title: the payload is the URL alone
C3_Witness ==
  /\ Returned("summary")
  /\ NoSelection /\ HasUrl /\ HasTitle
  /\ pageInfo.pageTextLength = LONG_PAGE_THRESHOLD + 1
  /\ payload = Some(PageUrlText)

(* C4: for the summary action without selection, with a page text of at    *)
(* most 4000 and a URL, the payload is "Summarize this page: " followed by *)
(* the title, a space and the URL, or by the URL alone when the title is   *)
(* empty.                                                                  *)
C4_SummaryShortPagePhrase ==
  (Returned("summary") /\ NoSelection /\ HasUrl
     /\ pageInfo.pageTextLength <= LONG_PAGE_THRESHOLD) =>
    payload = Some(PhraseSummarizeThisPage
                     \o (IF HasTitle THEN context.title \o <<" ">> ELSE <<>>)
                     \o context.pageUrl.val)

\* "Summarize this page: Doc https://x.test/a"
C4_Witness ==
  /\ Returned("summary")
  /\ NoSelection
  /\ ~pageInfo.isNull /\ pageInfo.success
  /\ pageInfo.pageTextLength = LONG_PAGE_THRESHOLD
  /\ payload = Some(PhraseSummarizeThisPage \o DocTitleText \o <<" ">> \o PageUrlText)

(* C5, as claimed: for the translate action with a language and a          *)
(* selection longer than 1500, the payload is the translate instruction    *)
(* with the language's display name, marked as a partial excerpt, followed *)
(* by the first 1500 code units of the selection.                          *)
C5_Claimed ==
  (Returned("translate") /\ extras.language.some /\ LongSelection) =>
    payload = Some(PhraseTranslateFollowing \o extras.language.displayName
                     \o PhrasePartialExcerpt
                     \o SubSeq(SnapshotSelection, 1, MAX_Q))

(* C5, amended: the same when there is no effective URL, the excerpt being *)
(* the first 1500 code units with trailing white space removed; with a URL *)
(* the payload is the translate-this-page phrase with the URL.             *)
C5_TranslateLongSelectionExcerpt ==
  (Returned("translate") /\ extras.language.some /\ LongSelection) =>
    IF HasUrl
    THEN payload = Some(TranslatePage(extras.language.displayName, context.pageUrl.val))
    ELSE payload = Some(PhraseTranslateFollowing \o extras.language.displayName
                          \o PhrasePartialExcerpt \o SelectionExcerpt)

\* a long selection whose code unit 1500 is a space, on a page without URL
C5_Witness ==
  /\ Returned("translate")
  /\ extras.language.some
  /\ LongSelection
  /\ ~HasUrl
  /\ Len(SelectionExcerpt) = MAX_Q - 1
  /\ payload.some /\ EndsWith(payload.val, SelectionExcerpt)

(* C6: for the followup action, the call returns null whenever the         *)
(* question is absent, empty or white space only, whatever the selection,  *)
(* the URL, the title and the page length.                                 *)
C6_FollowupWithoutQuestionIsNull ==
  (Returned("followup") /\ Len(TrimmedQuestion) = 0) => result = ResultNull

\* a white-space-only question asked about a selection on a page with a URL
C6_Witness ==
  /\ Returned("followup")
  /\ extras.followupQuestion.some
  /\ Len(extras.followupQuestion.val) > 0
  /\ Len(TrimmedQuestion) = 0
  /\ ShortSelection /\ HasUrl
  /\ result = ResultNull

(* C7, as claimed: for each of the four actions, the call returns null     *)
(* when there is no effective URL, no selection and no title.              *)
C7_Claimed ==
  (pc = "done" /\ ~HasUrl /\ NoSelection /\ ~HasTitle) => result = ResultNull

(* C7, amended: without effective URL, selection and title, the call       *)
(* returns null for summary and rewrite, for translate exactly when no     *)
(* language is supplied, and for followup exactly when the trimmed         *)
(* question is empty; translate with a language and followup with a        *)
(* question return a URL.                                                  *)
C7_NoSignalNullPerAction ==
  (pc = "done" /\ ~HasUrl /\ NoSelection /\ ~HasTitle) =>
    /\ result.kind \in {"null", "url"}
    /\ result.kind = "null" <=>
         \/ action \in {"summary", "rewrite"}
         \/ action = "translate" /\ ~extras.language.some
         \/ action = "followup" /\ Len(TrimmedQuestion) = 0

\* rewrite on a page whose extraction succeeded but gave nothing to send
C7_Witness ==
  /\ Returned("rewrite")
  /\ ~pageInfo.isNull /\ pageInfo.success
  /\ ~HasUrl /\ NoSelection /\ ~HasTitle
  /\ result = ResultNull

(* C8: for the translate action, the call returns null if and only if no   *)
(* language is supplied; with a language it returns a URL whose payload is *)
(* chosen in the order short selection, URL, cut selection, title,         *)
(* language alone.                                                         *)
C8_Claimed ==
  Returned("translate") =>
    /\ result.kind = "null" <=> ~extras.language.some
    /\ extras.language.some =>
         /\ result.kind = "url"
         /\ payload =
              LET label == extras.language.displayName
              IN IF ShortSelection THEN Some(TranslateSelection(label, SnapshotSelection))
                 ELSE IF HasUrl THEN Some(TranslatePage(label, context.pageUrl.val))
                 ELSE IF LongSelection THEN Some(TranslateExcerpt(label, SelectionExcerpt))
                 ELSE IF HasTitle THEN Some(TranslateTitle(context.title, label))
                 ELSE Some(TranslateLanguageOnly(label))

(* C9: for the rewrite action, the call returns null only when there is no *)
(* selection, no effective URL and no title; otherwise it returns a URL.   *)
C9_Claimed ==
  Returned("rewrite") =>
    IF NoSelection /\ ~HasUrl /\ ~HasTitle
    THEN result.kind = "null"
    ELSE result.kind = "url"

(* C10: for the followup action with a non-empty trimmed question q, the   *)
(* payload ends with q; what precedes q is chosen in the order short       *)
(* selection, URL (with the title when there is one), cut long selection,  *)
(* title; with none of them the payload is q itself.                       *)
C10_FollowupEndsWithQuestion ==
  (Returned("followup") /\ Len(TrimmedQuestion) > 0) =>
    LET q == TrimmedQuestion
    IN /\ payload.some
       /\ EndsWith(payload.val, q)
       /\ payload.val =
            IF ShortSelection THEN FollowupSelection(SnapshotSelection, q)
            ELSE IF HasUrl /\ HasTitle
              THEN FollowupPageTitleUrl(context.title, context.pageUrl.val, q)
            ELSE IF HasUrl THEN FollowupPageUrl(context.pageUrl.val, q)
            ELSE IF LongSelection THEN FollowupExcerpt(SelectionExcerpt, q)
            ELSE IF HasTitle THEN FollowupTitle(context.title, q)
            ELSE q

\* a question typed with surrounding white space, with nothing else to send
C10_Witness ==
  /\ Returned("followup")
  /\ extras.followupQuestion.some
  /\ Len(extras.followupQuestion.val) > Len(TrimmedQuestion)
  /\ NoSelection /\ ~HasUrl /\ ~HasTitle
  /\ payload = Some(QuestionText)

(* C11: a payload for summary, translate or rewrite holds a newline only   *)
(* where the trimmed selection, the title or the URL it is built from      *)
(* holds one: the sentences of these three actions add none.               *)
HasNewline(s) == \E i \in 1..Len(s) : s[i] = "\n"

SingleLineAction == action \in {"summary", "translate", "rewrite"}

\* the claim as it is worded: no newline at all, for every selection
C11_Claimed ==
  (pc = "done" /\ SingleLineAction /\ payload.some) => ~HasNewline(payload.val)

C11_NewlineOnlyFromPageText ==
  (pc = "done" /\ SingleLineAction /\ payload.some /\ HasNewline(payload.val)) =>
    \/ HasNewline(SnapshotSelection)
    \/ HasNewline(pageInfo.title)
    \/ HasNewline(pageInfo.url)
    \/ (tab.title.some /\ HasNewline(tab.title.val))
    \/ (tab.url.some /\ HasNewline(tab.url.val))

\* a selection of two lines, summarized as it stands
C11_Witness ==
  /\ Returned("summary")
  /\ ShortSelection
  /\ HasNewline(SnapshotSelection)
  /\ payload = Some(SnapshotSelection)
  /\ HasNewline(payload.val)

(* C12: when buildProviderUrl returns a URL, the URL starts with the base  *)
(* URL of the provider, and percent-decoding what follows the base URL     *)
(* gives back the payload, code unit for code unit.                        *)
C12_DecodingGivesPayload ==
  (pc = "done" /\ result.kind = "url") =>
    LET base == PROVIDER_URLS[provider]
        query == SubSeq(result.url, Len(base) + 1, Len(result.url))
    IN /\ Len(result.url) >= Len(base)
       /\ SubSeq(result.url, 1, Len(base)) = base
       /\ decodeURIComponent(query) = [threw |-> FALSE, val |-> payload.val]

\* a selection that itself reads like an escape: "a%20" travels as "a%2520"
C12_Witness ==
  /\ Returned("summary")
  /\ result.kind = "url"
  /\ payload = Some(<<"a", "%", "2", "0">>)
  /\ EndsWith(result.url, <<"=", "a", "%", "2", "5", "2", "0">>)

(* C13: the URL a trigger opens is the base URL of the provider stored in *)
(* the settings store when that is perplexity, chatgpt or claude, and the  *)
(* base URL of perplexity for any other stored value (missing, not a       *)
(* string, no member), followed by the percent-encoded payload.            *)
StoredProviderUrl ==
  CASE store.provider = Str("chatgpt") -> UrlChatgpt
    [] store.provider = Str("claude") -> UrlClaude
    [] OTHER -> UrlPerplexity

C13_OpenedUrlFollowsStoredProvider ==
  \A i \in 1..Len(opened) :
    /\ payload.some
    /\ opened[i].url = StoredProviderUrl \o encodeURIComponent(payload.val).val

\* "Claude" is stored, which is no member: the URL is perplexity's
C13_Witness ==
  /\ store.provider = Str("Claude")
  /\ Len(opened) = 1
  /\ payload.some
  /\ opened[1].url = UrlPerplexity \o encodeURIComponent(payload.val).val

(* C14: normalizeSettings gives, for every stored pair (a value missing   *)
(* or of any type), a Settings with both fields: each field is the stored  *)
(* value when that is a member of its enumeration and the default          *)
(* (perplexity, popup) otherwise, one field not depending on the other.    *)
StoredMember(value, members) == value.type = "string" /\ value.val \in members

C14_NormalizeSettingsTotal ==
  \A r \in EnsureRuns :
    ensure[r].pc \in {"set", "done"} =>
      LET stored == ensure[r].stored
          normalized == ensure[r].normalized
      IN /\ DOMAIN normalized = {"provider", "openMode"}
         /\ normalized.provider =
              IF StoredMember(stored.provider, {"perplexity", "chatgpt", "claude"})
              THEN stored.provider.val ELSE "perplexity"
         /\ normalized.openMode =
              IF StoredMember(stored.openMode, {"popup", "tab"})
              THEN stored.openMode.val ELSE "popup"

\* a valid provider next to a number as open mode: the provider is kept
C14_Witness ==
  \E r \in EnsureRuns :
    /\ ensure[r].pc \in {"set", "done"}
    /\ ensure[r].stored.provider = Str("chatgpt")
    /\ ensure[r].stored.openMode.type = "number"
    /\ ensure[r].normalized = [provider |-> "chatgpt", openMode |-> "popup"]

(* C15: a run of ensureDefaultSettings calls storage.sync.set at most      *)
(* once, with exactly the keys whose value it read was missing or invalid, *)
(* each with its default; it makes no call when both values it read were   *)
(* valid; and a run that reads after another run has finished makes no     *)
(* call.                                                                   *)
InvalidKeys(stored) ==
  {k \in SettingKeys :
     ~StoredMember(stored[k], IF k = "provider" THEN {"perplexity", "chatgpt", "claude"}
                             ELSE {"popup", "tab"})}

WritesBy(r) == {i \in 1..Len(writes) : writes[i].by = r}

C15_EnsureWritesInvalidKeysOnly ==
  \A r \in EnsureRuns :
    /\ Cardinality(WritesBy(r)) <= 1
    /\ \A i \in WritesBy(r) :
         /\ DOMAIN writes[i].items = InvalidKeys(ensure[r].stored)
         /\ \A k \in DOMAIN writes[i].items :
              writes[i].items[k] = (IF k = "provider" THEN "perplexity" ELSE "popup")
    /\ ensure[r].pc = "done" =>
         (WritesBy(r) = {} <=> InvalidKeys(ensure[r].stored) = {})
    /\ (ensure[r].pc \in {"set", "done"} /\ ensure[r].after # {}) =>
         (ensure[r].pc = "done" /\ WritesBy(r) = {})

\* the startup run writes the default open mode and keeps the stored
\* provider; the run of onInstalled reads afterwards and writes nothing
C15_Witness ==
  /\ ensure["startup"].pc = "done"
  /\ ensure["installed"].pc = "done"
  /\ ensure["installed"].after = {"startup"}
  /\ Len(writes) = 1
  /\ writes[1] = [by |-> "startup", items |-> [openMode |-> "popup"], ok |-> TRUE]
  /\ ensure["startup"].stored.provider = Str("chatgpt")
  /\ store = [provider |-> Str("chatgpt"), openMode |-> Str("popup")]

(* C16: when the snapshot is null or has success = false and the tab has  *)
(* a URL, the call returns a URL for summary, rewrite, translate with a    *)
(* language and followup with a question, and the payload is the sentence  *)
(* of the page branch built from the tab's URL and title alone: nothing    *)
(* the failed snapshot carries (selection, page length, title, URL) shows. *)
TabTitle == IF tab.title.some THEN Trim(tab.title.val) ELSE <<>>

PayloadFromTab ==
  CASE action = "summary" ->
         IF Len(TabTitle) > 0 THEN SummarizePageTitleUrl(TabTitle, TabUrl)
         ELSE SummarizePageUrl(TabUrl)
    [] action = "translate" -> TranslatePage(languageLabel(extras.language), TabUrl)
    [] action = "rewrite" ->
         IF Len(TabTitle) > 0 THEN RewritePageTitleUrl(TabTitle, TabUrl)
         ELSE RewritePageUrl(TabUrl)
    [] action = "followup" ->
         IF Len(TabTitle) > 0 THEN FollowupPageTitleUrl(TabTitle, TabUrl, TrimmedQuestion)
         ELSE FollowupPageUrl(TabUrl, TrimmedQuestion)

C16_FailedSnapshotUsesTabOnly ==
  ( /\ pc = "done"
    /\ pageInfo.isNull \/ ~pageInfo.success
    /\ ~Blank(TabUrl)
    /\ action = "translate" => extras.language.some
    /\ action = "followup" => Len(TrimmedQuestion) > 0 ) =>
      /\ result.kind = "url"
      /\ payload = Some(PayloadFromTab)

\* a failed snapshot carrying a selection, the length of a long page, a
\* title and a URL of its own: the summary names the tab's title and URL
C16_Witness ==
  /\ Returned("summary")
  /\ ~pageInfo.isNull /\ ~pageInfo.success
  /\ pageInfo.selection = <<"a", "b">>
  /\ pageInfo.pageTextLength > LONG_PAGE_THRESHOLD
  /\ pageInfo.url = PageUrlText /\ Len(pageInfo.title) > 0
  /\ result.kind = "url"
  /\ payload = Some(SummarizePageTitleUrl(TabTitleText, TabUrlText))

(* C17: the effective URL is the snapshot's URL when the extraction        *)
(* succeeded and that URL is not empty, and the tab's URL otherwise; it is  *)
(* null exactly when the URL so chosen is missing, empty or white space     *)
(* only.                                                                    *)
\* the claim as it is worded: the snapshot's URL whenever it is not empty,
\* null only when neither URL is non-empty
C17_Claimed ==
  pc # "start" =>
    /\ Len(SnapshotUrl) > 0 => context.pageUrl = Some(SnapshotUrl)
    /\ (Len(SnapshotUrl) = 0 /\ Len(TabUrl) > 0) => context.pageUrl = Some(TabUrl)
    /\ ~context.pageUrl.some => (Len(SnapshotUrl) = 0 /\ Len(TabUrl) = 0)

C17_EffectiveUrl ==
  pc # "start" =>
    LET succeeded == ~pageInfo.isNull /\ pageInfo.success
        chosen == IF succeeded /\ Len(SnapshotUrl) > 0 THEN SnapshotUrl ELSE TabUrl
    IN context.pageUrl = IF Blank(chosen) THEN Null ELSE Some(chosen)

\* a failed snapshot that carries the page's URL: the tab's URL is used
C17_Witness ==
  /\ pc # "start"
  /\ ~pageInfo.isNull /\ ~pageInfo.success
  /\ pageInfo.url = PageUrlText
  /\ context.pageUrl = Some(TabUrlText)

(* C19: a failed read of the settings store does not end handleTrigger:    *)
(* its promise never rejects with the error of storage.sync.get.           *)
C19_Claimed == ~(hpc = "rejected" /\ rejection = "storage.sync.get")

(* C20: when the open fails, handleTrigger has made that one open call and *)
(* makes no other, requests one notification, the one about the failed     *)
(* open, and returns; its promise does not reject.                         *)
OpenFailed == \E i \in 1..Len(opened) : ~opened[i].ok

C20_FailedOpenOneNotification ==
  OpenFailed =>
    /\ Len(opened) = 1
    /\ rejection = "none"
    /\ hpc \in {"notifyOpen", "returned"}
    /\ Len(notified) = (IF hpc = "returned" THEN 1 ELSE 0)
    /\ \A j \in 1..Len(notified) : notified[j].message = MsgOpenFailed

\* the popup window could not be created; the notification was shown
C20_Witness ==
  /\ hpc = "returned"
  /\ Len(opened) = 1
  /\ opened[1].api = "windows.create" /\ ~opened[1].ok
  /\ notified = <<[message |-> MsgOpenFailed, ok |-> TRUE]>>

(* C18: with the chain, at most one run of the body is in progress at any  *)
(* time, however the calls of setupContextMenus arrive; and a rejected run *)
(* does not keep a later one from running: a promise of the chain ends     *)
(* only by its own run of the body, and the run queued behind a rejected   *)
(* one can start.                                                          *)
Running == {k \in 1..Len(promises) : promises[k].state = "running"}

C18_OneRunAtATime ==
  /\ Cardinality(Running) <= 1
  /\ \A k \in 1..Len(promises) :
       /\ promises[k].state \in {"fulfilled", "rejected"} => promises[k].phase # "none"
       /\ (promises[k].state = "pending" /\ ParentState(k) = "rejected") =>
            ENABLED React(k)

\* the first run was rejected by a failed settings read, the second is at
\* work, the third waits for it
C18_Witness ==
  /\ Len(promises) = MaxCalls
  /\ promises[1].state = "rejected"
  /\ promises[2].state = "running"
  /\ promises[2].phase = "create"
  /\ promises[3].state = "pending"

\* C21: when buildProviderUrl has returned null inside handleTrigger, the run
\* is at its notifyFailure call or has returned after it; exactly one
\* notification, with the no-question message, has been requested once it has
\* returned; openProvider was never called; and the run ends by returning
\* whether notifications.create resolved or rejected.
C21_NullUrlOneNotificationNoOpen ==
  result.kind = "null" =>
    /\ hpc \in {"notifyQuestion", "returned"}
    /\ opened = <<>>
    /\ rejection = "none"
    /\ Len(notified) = (IF hpc = "returned" THEN 1 ELSE 0)
    /\ \A i \in 1..Len(notified) : notified[i].message = MsgNoQuestion

\* buildProviderUrl returned null, the notification was requested and
\* notifications.create rejected; the run has returned
C21_Witness ==
  /\ result.kind = "null"
  /\ hpc = "returned"
  /\ Len(notified) = 1
  /\ ~notified[1].ok

(* C22: every trigger source starts handleTrigger: a toolbar click and the  *)
(* command the manifest declares start it with the summary action, each of *)
(* the four child items with its own action; a click on the root item or   *)
(* on an unknown menu id starts nothing.                                   *)
StartedWith(a) == hpc \notin {"listener", "ignored"} /\ action = a

C22_Claimed ==
  hpc # "listener" =>
    CASE trig.source = "toolbar" -> StartedWith("summary")
      [] trig.source = "command" -> StartedWith("summary")
      [] trig.source = "menu" ->
           CASE trig.id = CONTEXT_MENU_SUMMARY_ID -> StartedWith("summary")
             [] trig.id = CONTEXT_MENU_TRANSLATE_ID -> StartedWith("translate")
             [] trig.id = CONTEXT_MENU_REWRITE_ID -> StartedWith("rewrite")
             [] trig.id = CONTEXT_MENU_FOLLOWUP_ID -> StartedWith("followup")
             [] OTHER -> hpc = "ignored"

(* C23: truncatedSelection is a prefix of the trimmed selection, of at     *)
(* most 1500 code units, and is the whole selection when that is short; so *)
(* no payload of any action holds more than the first 1500 code units of a *)
(* longer selection.                                                       *)
IsPrefix(p, s) == Len(p) <= Len(s) /\ p = SubSeq(s, 1, Len(p))

\* x occurs in s as a run of consecutive code units
Occurs(x, s) ==
  \E i \in 0..(Len(s) - Len(x)) :
    /\ s[i + 1] = x[1]
    /\ s[i + Len(x)] = x[Len(x)]
    /\ SubSeq(s, i + 1, i + Len(x)) = x

C23_TruncatedSelectionBoundedPrefix ==
  pc # "start" =>
    LET trimmed == SnapshotSelection
        cut == context.truncatedSelection
    IN /\ IsPrefix(cut, trimmed)
       /\ Len(cut) <= MAX_Q
       /\ (Len(trimmed) > 0 /\ Len(trimmed) <= MAX_Q) => cut = trimmed
       /\ (Len(trimmed) > MAX_Q /\ payload.some) =>
            ~Occurs(SubSeq(trimmed, 1, MAX_Q + 1), payload.val)

\* a selection of more than 1500 code units with a space as number 1500: the
\* cut is shorter than 1500, and the payload holds it
C23_Witness ==
  /\ pc = "done"
  /\ LongSelection
  /\ Len(context.truncatedSelection) = MAX_Q - 1
  /\ payload.some
  /\ Occurs(context.truncatedSelection, payload.val)

(* C24: buildProviderUrl never throws: whatever the snapshot, tab,         *)
(* provider, action and extras, the call ends with null or with a URL,     *)
(* also when the selection is cut at code unit 1500 inside a surrogate     *)
(* pair.                                                                   *)
C24_Claimed == pc = "done" => result.kind \in {"null", "url"}

(* C25: provided the settings read succeeds, every invocation of           *)
(* handleTrigger ends having made at most one window or tab creation       *)
(* attempt and requested at most one notification, and no notification     *)
(* after a successful open; it ends with neither only when the action is   *)
(* followup and the prompt gave no non-empty question.                     *)
Ended == hpc \in {"returned", "rejected"}

C25_Claimed ==
  settings # NoSettings =>
    /\ Len(opened) <= 1
    /\ Len(notified) <= 1
    /\ (\E i \in 1..Len(opened) : opened[i].ok) => notified = <<>>
    /\ (Ended /\ opened = <<>> /\ notified = <<>>) =>
         (action = "followup" /\ ~Truthy(extras.followupQuestion))

(* C26: in background.ts, whatever the interleaving of the runs of         *)
(* setupContextMenus, once every run has finished the context menu is the  *)
(* root item and its four children, each id once.                          *)
AllRunsFinished ==
  /\ promises # <<>>
  /\ \A k \in 1..Len(promises) : promises[k].state \in {"fulfilled", "rejected"}

C27_Claimed ==
  (AllRunsFinished /\ Called("changed")) =>
    menus.rootTitle = PROVIDER_LABELS[getSettings(store).provider]

(* C28: ensureDefaultSettings never replaces a valid stored value: once a   *)
(* key of the store holds a member of its enumeration, every step that     *)
(* changes the value is a write of the options page's updateSetting.       *)
ValidStored(key) ==
  StoredMember(store[key], IF key = "provider" THEN Providers ELSE OpenModes)

C28_Claimed ==
  [][\A key \in SettingKeys :
       (ValidStored(key) /\ store'[key] # store[key]) =>
         /\ Len(writes') = Len(writes) + 1
         /\ writes'[Len(writes')].by = "options"]_vars

(* C29: on the options page, whenever the status is 'saved', or is 'idle'  *)
(* again after a save, no save is in flight and the provider and openMode  *)
(* shown as selected are the values the store holds.                       *)
C29_Claimed ==
  (page.status = "saved" \/ (page.status = "idle" /\ saves # <<>>)) =>
    /\ InFlight = {}
    /\ \A key \in SettingKeys : page.settings.val[key] = store[key]

(* C30: for any number of followup triggers on one tab, every call of      *)
(* showFollowupPrompt is resolved once the user has acted on the overlay   *)
(* that is visible: when no overlay is in the document, no call is         *)
(* pending.                                                                *)
C30_Claimed ==
  overlay = 0 => \A i \in 1..Len(prompts) : prompts[i].state = "resolved"

====
